---- MODULE Spec2Model ----
(***************************************************************************)
(* A model of the ghostcomment scan -> post -> clean pipeline.             *)
(*                                                                         *)
(*   CleanSpec     core/cleaner.js   removeComments, one step per await    *)
(*   PostSpec      clients           postReviewComments / postDiscussions  *)
(*   ActionSpec    hosted action     run(): scan, post, clean              *)
(*   ScanSpec      core/scanner.js   scanFiles, scanSingleFile,            *)
(*                                   countGhostComments                    *)
(*   ValidateSpec  core/cleaner.js   validateCommentsForCleaning, then a   *)
(*                                   dry run of removeComments             *)
(*   PostLiveSpec  clients           PostSpec with every await settling    *)
(*   LineSpec      core/scanner.js   scanSingleFile on one line built      *)
(*                                   around the prefix                     *)
(*   FrontSpec     action and CLI    run(), `clean` and `comment`          *)
(*   RaceSpec      core/cleaner.js   CleanSpec next to another process     *)
(*                                   that writes the same files            *)
(*   RollbackSpec  core/cleaner.js   removeComments on three files         *)
(*                                                                         *)
(* A file is modelled by the array `content.split('\n')` yields: a         *)
(* non-empty sequence of lines.  A line is a sequence of characters.       *)
(***************************************************************************)
EXTENDS Integers, Sequences, FiniteSets, TLC

\* ------------------------------------------------------------------ bounds
\* longest annotation list handed to removeComments
MaxComments == 2
\* file-system calls that may fail during one removeComments call
MaxFaults == 1

\* ------------------------------------------------------------- file tree
Files == {"a.ts", "b.ts"}

\* the configured prefix, //_gc_
Prefix == <<"/", "/", "_", "g", "c", "_">>

\* "//_gc_ a": an annotated line
LineGhost == Prefix \o <<" ", "a">>
\* "x": a line of code
LineCode == <<"x">>
\* "": what split('\n') yields for an empty file
LineEmpty == <<>>

Lines == {LineGhost, LineCode}

\* contents a file of the tree starts with
Contents == {<<LineGhost>>, <<LineCode, LineGhost>>}

\* backupPath = '' / the backup file does not exist
NoBackup == <<>>

\* every line number an annotation of the model may carry: the longest file
\* has two lines, 3 is out of range everywhere
LineNumbers == {1, 2, 3}

\* the annotation lists removeComments is given: any file, any line number,
\* any recorded line
Annotations ==
    {[filePath |-> f, lineNumber |-> n, content |-> <<"a">>, prefix |-> Prefix,
      originalLine |-> l] : f \in Files, n \in LineNumbers, l \in Lines}

RECURSIVE SeqsUpTo(_, _)
SeqsUpTo(S, n) ==
    IF n = 0 THEN {<<>>}
    ELSE LET shorter == SeqsUpTo(S, n - 1)
         IN shorter \cup {Append(s, x) : s \in {t \in shorter : Len(t) = n - 1}, x \in S}

CommentLists == SeqsUpTo(Annotations, MaxComments)

CleanOptions == [createBackups : BOOLEAN, restoreOnError : BOOLEAN,
                 removeBackups : BOOLEAN, dryRun : BOOLEAN]

DEFAULT_CLEAN_OPTIONS ==
    [createBackups |-> TRUE, restoreOnError |-> TRUE,
     removeBackups |-> FALSE, dryRun |-> FALSE]

FILE_ERROR == "FILE_ERROR"

NoResult == [none |-> TRUE]

\* GhostCommentErrorType
CONFIG_ERROR == "CONFIG_ERROR"
GIT_ERROR == "GIT_ERROR"
GITHUB_API_ERROR == "GITHUB_API_ERROR"
GITLAB_API_ERROR == "GITLAB_API_ERROR"
NETWORK_ERROR == "NETWORK_ERROR"
AUTH_ERROR == "AUTH_ERROR"
RATE_LIMIT_ERROR == "RATE_LIMIT_ERROR"
\* a thrown value that is no GhostCommentError: error.type is undefined
NoCode == "undefined"
NoError == "none"

\* RATE_LIMITS
MAX_RETRY_ATTEMPTS == 3
RETRY_BASE_DELAY == 1000

\* ------------------------------------------------- platform responses
\* What the platform answers to one comment-creation request.
\*   kind       "ok": 2xx; "http": an error status; "noResponse": an axios
\*              error without response (timeout, connection failure);
\*              "nonAxios": client.post threw something that is no axios error
\*   status     the HTTP status, 0 when there is none
\*   rate       the response carries x-ratelimit-reset or retry-after
\*   linePos    data.message contains 'line' or 'position'
\*   notInDiff  the text the platform sent (statusText, data.message,
\*              errors[].field / code) contains 'not in diff'
Response(k, st, rate, linePos, nid) ==
    [kind |-> k, status |-> st, rate |-> rate, linePos |-> linePos, notInDiff |-> nid]

Http(st) == Response("http", st, FALSE, FALSE, FALSE)
Ok == Response("ok", 201, FALSE, FALSE, FALSE)
NoResponse == Response("noResponse", 0, FALSE, FALSE, FALSE)
NonAxios == Response("nonAxios", 0, FALSE, FALSE, FALSE)

Transient == {500, 502, 503, 504}

Responses ==
    {Ok, NoResponse, NonAxios}
    \cup {Http(st) : st \in {400, 401, 403, 404, 422, 429} \cup Transient}
    \cup {Response("http", 403, TRUE, FALSE, FALSE),
          Response("http", 400, FALSE, TRUE, FALSE),
          Response("http", 400, FALSE, FALSE, TRUE),
          Response("http", 404, FALSE, FALSE, TRUE),
          Response("http", 503, FALSE, FALSE, TRUE)}

Platforms == {"github", "gitlab"}

VARIABLES
    disk,           \* [Files -> lines]: the working tree
    backups,        \* [Files -> lines or NoBackup]: the sidecar backup of each file
    comments,       \* the annotation list passed to removeComments
    options,        \* the CleanOptions passed to removeComments
    cwdIsRoot,      \* workingDirectory resolves to process.cwd()
    cpc,            \* where removeComments stands
    fileOrder,      \* keys of commentsByFile, in Map insertion order
    fi,             \* index into fileOrder of the file being cleaned
    backupPath,     \* cleanFile's local: a backup was made for this file
    readLines,      \* cleanFile's local `lines`, read before the write
    cleanedFiles,   \* removeComments' local
    errorFiles,     \* removeComments' local
    fileErrors,     \* the error each failed cleanFile threw
    totalCommentsRemoved,
    ri,             \* index into cleanedFiles of the rollback / unlink loops
    cleanResult,    \* what removeComments returned
    preDisk,        \* the tree when removeComments was called
    restored,       \* files whose restoreFromBackup call succeeded
    faults          \* file-system calls that failed so far

cleanVars == <<disk, backups, comments, options, cwdIsRoot, cpc, fileOrder, fi,
               backupPath, readLines, cleanedFiles, errorFiles, fileErrors,
               totalCommentsRemoved, ri, cleanResult, preDisk, restored, faults>>

VARIABLES
    platform,       \* "github" (GitHubClient) or "gitlab" (GitLabClient)
    maxRetries,     \* this.config.maxRetries
    commitSha,      \* context.commitSha is set
    ppc,            \* where postReviewComments / postDiscussions stands
    idx,            \* the loop's i, 1-based
    attempt,        \* postSingleComment's attempt
    result,         \* the loop's result object
    history,        \* the responses the current annotation received so far
    waits,          \* the retry delays slept for the current annotation
    outcomes,       \* per settled annotation: how it ended
    inFlight,       \* comment-creation requests sent and not answered yet
    postResult,     \* what the post call returned
    postError       \* the error the post call threw

postVars == <<platform, maxRetries, commitSha, ppc, idx, attempt, result, history,
              waits, outcomes, inFlight, postResult, postError>>

VARIABLES
    apc,            \* where the hosted action's run() stands
    inputs,         \* the action inputs fail-on-found, clean-mode, dry-run
    runFailed       \* core.setFailed was called

actionVars == <<apc, inputs, runFailed>>

VARIABLES
    entry,          \* the scanner export called: "scanFiles", "scanSingleFile"
                    \* or "countGhostComments"
    config,         \* the config passed: prefix, include, exclude
    scanTree,       \* [ScanPaths -> lines]: the tree the scanner reads
    unreadable,     \* the paths whose fs.stat / fs.readFile fails
    spc,            \* where the scanner call stands
    globbed,        \* `files`: what fast-glob returned, within MAX_FILES
    bi,             \* the batch loop's i as a 1-based index: first file of the batch
    status,         \* per path: the state of its scanFile promise
    fileResult,     \* per path: the value its scanFile promise fulfilled with
    allComments,    \* scanFiles' local
    totalCount,     \* countGhostComments' local
    scanResult,     \* what the call returned
    scanError,      \* the type of the error the call threw
    ioCalls,        \* glob, stat and readFile calls made so far by the call
    pass,           \* 1: the first scan of the tree, 2: the scan repeated
    firstResult     \* what the first scan returned

scanVars == <<entry, config, scanTree, unreadable, spc, globbed, bi, status,
              fileResult, allComments, totalCount, scanResult, scanError, ioCalls,
              pass, firstResult>>

VARIABLES
    readOnly,       \* the files that can be read but not written
    vpc,            \* where validateCommentsForCleaning stands
    vi,             \* index into the Map keys of the file being validated
    vErrors,        \* validateCommentsForCleaning's local `errors`
    vResult         \* what validateCommentsForCleaning returned

validateVars == <<readOnly, vpc, vi, vErrors, vResult>>

VARIABLES
    command,        \* the CLI command run: "clean" or "comment"
    cliState,       \* the CLI's global state: dryRun
    cmdOptions,     \* the command's options: force, backup, token
    unreadableFiles,\* the files of the tree whose read fails
    lpc,            \* where the CLI command stands
    exitCode        \* the code process.exit was called with, 0 without a call

cliVars == <<command, cliState, cmdOptions, unreadableFiles, lpc, exitCode>>

VARIABLES
    otherWrote      \* the files another process wrote while cleanFile ran on them

raceVars == <<otherWrote>>

vars == <<cleanVars, postVars, actionVars, scanVars, validateVars, cliVars, raceVars>>

\* ------------------------------------------------------------------ scanner
\* what \s matches among the characters of the model
Ws == {" ", "\t", "\r"}
\* what . does not match
LineTerminators == {"\r"}

\* CONFIG_VALIDATION.MAX_COMMENT_LENGTH
MAX_COMMENT_LENGTH == 1000

NoMatch == [matched |-> FALSE, capture |-> <<>>]

\* line.match(/^\s*<escaped prefix>\s*(.+)$/): the leading \s* is greedy and
\* gives characters back until the literal prefix fits; behind the prefix
\* \s* is greedy and gives characters back until (.+) has at least one
\* character to take; (.+) must reach the end of the line
MatchLine(line, prefix) ==
    LET n == Len(line)
        p == Len(prefix)
        \* the lengths of leading white space after which the prefix stands
        leads == {k \in 0..n :
                    /\ k + p <= n
                    /\ \A t \in 1..k : line[t] \in Ws
                    /\ SubSeq(line, k + 1, k + p) = prefix}
        \* the starts of a capture behind a prefix ending at e
        starts(e) == {b \in (e + 1)..n :
                        /\ \A t \in (e + 1)..(b - 1) : line[t] \in Ws
                        /\ \A t \in b..n : line[t] \notin LineTerminators}
        good == {k \in leads : starts(k + p) # {}}
    IN IF good = {} THEN NoMatch
       ELSE LET k == CHOOSE x \in good : \A y \in good : y <= x
                b == CHOOSE x \in starts(k + p) : \A y \in starts(k + p) : y <= x
            IN [matched |-> TRUE, capture |-> SubSeq(line, b, n)]

RECURSIVE TrimStart(_)
TrimStart(s) == IF s # <<>> /\ Head(s) \in Ws THEN TrimStart(Tail(s)) ELSE s

RECURSIVE TrimEnd(_)
TrimEnd(s) ==
    IF s # <<>> /\ s[Len(s)] \in Ws THEN TrimEnd(SubSeq(s, 1, Len(s) - 1)) ELSE s

\* String.prototype.trim
Trim(s) == TrimEnd(TrimStart(s))

\* scanFile's forEach body for one line: the comment pushed, if any
LineComment(path, lines, k, prefix) ==
    LET m == MatchLine(lines[k], prefix)
    IN IF m.matched /\ m.capture # <<>>
       THEN <<[filePath |-> path, lineNumber |-> k, content |-> Trim(m.capture),
               prefix |-> prefix, originalLine |-> lines[k]]>>
       ELSE <<>>

RECURSIVE ScanLines_Descending(_, _, _, _)
\* the mutant pushes the comments of a file last line first
ScanLines_Descending(path, lines, from, prefix) ==
    IF from > Len(lines) THEN <<>>
    ELSE ScanLines_Descending(path, lines, from + 1, prefix)
         \o LineComment(path, lines, from, prefix)

RECURSIVE ScanLines(_, _, _, _)
ScanLines(path, lines, from, prefix) ==
    IF from > Len(lines) THEN <<>>
    ELSE LineComment(path, lines, from, prefix)
         \o ScanLines(path, lines, from + 1, prefix)

\* scanFile: the comments of one file, in line order
scanFile(path, lines, prefix) == ScanLines(path, lines, 1, prefix)

\* scanFile throws CONFIG_ERROR: some comment is longer than the maximum
ScanFileThrows(path, lines, prefix) ==
    \E k \in 1..Len(scanFile(path, lines, prefix)) :
        Len(scanFile(path, lines, prefix)[k].content) > MAX_COMMENT_LENGTH

\* the files fast-glob returns, in the order it returns them
GlobOrder == <<"a.ts", "b.ts">>

RECURSIVE ScanBatch(_, _, _, _)
\* scanFiles' loop over the settled promises: a rejected scanFile (a file
\* not in `readable`, or one that threw) contributes nothing
ScanBatch(tree, readable, from, prefix) ==
    IF from > Len(GlobOrder) THEN <<>>
    ELSE LET f == GlobOrder[from]
         IN (IF f \in readable /\ ~ScanFileThrows(f, tree[f], prefix)
             THEN scanFile(f, tree[f], prefix) ELSE <<>>)
            \o ScanBatch(tree, readable, from + 1, prefix)

\* scanFiles(config, workingDirectory) on a tree whose files in `readable`
\* can be read
scanFiles(tree, readable, prefix) == ScanBatch(tree, readable, 1, prefix)

\* ------------------------------------------------- the scanner's exports
\* files of the tree the scanner is run on; path k is the k-th file
\* fast-glob returns
MaxScanFiles == 11
ScanPaths == 1..MaxScanFiles

\* CONFIG_VALIDATION and FILE_LIMITS
MAX_PREFIX_LENGTH == 20
MAX_INCLUDE_PATTERNS == 50
MAX_EXCLUDE_PATTERNS == 100
MAX_FILES == 10000
\* scanFiles' `const concurrency = 10`
concurrency == 10

\* a prefix of MAX_PREFIX_LENGTH + 1 characters
LongPrefix == [k \in 1..(MAX_PREFIX_LENGTH + 1) |-> "/"]
\* a list of n glob patterns that match every file of the tree
Patterns(n) == [k \in 1..n |-> "**/*"]
\* a list of n glob patterns that match no file of the tree
Ignores(n) == [k \in 1..n |-> "node_modules/**"]
\* a pattern that leaves the tree: the directory above it holds more than
\* MAX_FILES files
WidePattern == "../**/*"

ScanConfigs ==
    [prefix : {<<>>, Prefix, LongPrefix},
     include : {Patterns(0), Patterns(1), <<WidePattern>>,
                Patterns(MAX_INCLUDE_PATTERNS + 1)},
     exclude : {Ignores(0), Ignores(MAX_EXCLUDE_PATTERNS), Patterns(1),
                Ignores(MAX_EXCLUDE_PATTERNS + 1)}]

\* files.length: how many files glob(config.include, {ignore: config.exclude})
\* resolves with: none when an ignore pattern matches every file, more than
\* MAX_FILES when a pattern leaves the tree, else the files of the tree
GlobCount(c) ==
    IF \E k \in 1..Len(c.exclude) : c.exclude[k] = "**/*" THEN 0
    ELSE IF \E k \in 1..Len(c.include) : c.include[k] = WidePattern
    THEN MAX_FILES + 1
    ELSE MaxScanFiles

\* the mutant lets twice as many files through
TooManyFiles_Twice(n) == n > 2 * MAX_FILES

\* files.length > FILE_LIMITS.MAX_FILES
TooManyFiles(n) == n > MAX_FILES

\* an annotated line whose content has MAX_COMMENT_LENGTH + 1 characters
LineLong == Prefix \o <<" ">> \o [k \in 1..(MAX_COMMENT_LENGTH + 1) |-> "a"]

\* the trees scanned: odd paths hold one annotation, even paths two; in
\* the second tree path 2 holds the oversized annotation behind a good one
ScanTrees ==
    {[p \in ScanPaths |->
        IF p \in long THEN <<LineGhost, LineLong>>
        ELSE IF p % 2 = 1 THEN <<LineCode, LineGhost>>
        ELSE <<LineGhost, LineCode, LineGhost>>] : long \in {{}, {2}}}

\* the sets of files that cannot be read: none, one of the first batch, the
\* last file, or both
UnreadableSets == SUBSET {1, MaxScanFiles}

\* "// _gc_": the prefix as the README writes it, with a space behind the
\* slashes
SpacedPrefix == <<"/", "/", " ", "_", "g", "c", "_">>

\* lines around the prefix: white space or none in front of it, the prefix
\* itself, the README's spelling of it, or the prefix behind code; white
\* space or none behind it; then a word, two words, a word with a trailing
\* blank, a blank alone, or a word with the carriage return a CRLF file
\* leaves at the end of each line of content.split('\n')
PrefixLines ==
    {lead \o pre \o mid \o text :
        lead \in {<<>>, <<" ">>, <<"\t", " ">>},
        pre \in {Prefix, SpacedPrefix, <<"x", " ">> \o Prefix},
        mid \in {<<>>, <<" ">>, <<"\t">>},
        text \in {<<"a">>, <<"a", " ", "b">>, <<"a", " ">>, <<" ">>, <<"a", "\r">>}}

\* the trees scanSingleFile is run on: one of these lines is line 2 of the
\* odd paths and line 1 of the even paths
LineTrees ==
    {[p \in ScanPaths |-> IF p % 2 = 1 THEN <<LineCode, l>> ELSE <<l, LineCode>>] :
        l \in PrefixLines}

\* the mutant does not limit the exclude patterns
validateScanConfig_NoExcludeLimit(c) ==
    \/ c.prefix = <<>>
    \/ Len(c.prefix) > MAX_PREFIX_LENGTH
    \/ Len(c.include) = 0
    \/ Len(c.include) > MAX_INCLUDE_PATTERNS

\* validateScanConfig(config) throws CONFIG_ERROR
validateScanConfig(c) ==
    \/ c.prefix = <<>>
    \/ Len(c.prefix) > MAX_PREFIX_LENGTH
    \/ Len(c.include) = 0
    \/ Len(c.include) > MAX_INCLUDE_PATTERNS
    \/ Len(c.exclude) > MAX_EXCLUDE_PATTERNS

RECURSIVE CountMatches(_, _, _)
\* countGhostComments' inner loop: the lines regex.test accepts
CountMatches(lines, from, prefix) ==
    IF from > Len(lines) THEN 0
    ELSE (IF MatchLine(lines[from], prefix).matched THEN 1 ELSE 0)
         + CountMatches(lines, from + 1, prefix)

\* what scanFile and the counting loop make of each file of each tree with
\* the prefix //_gc_, the only prefix of ScanConfigs validateScanConfig lets
\* through: computed once
ScanTable ==
    [t \in ScanTrees \cup LineTrees |->
        [p \in ScanPaths |->
            [throws |-> ScanFileThrows(p, t[p], Prefix),
             comments |-> scanFile(p, t[p], Prefix),
             count |-> CountMatches(t[p], 1, Prefix)]]]

NoScanResult == [none |-> TRUE]

\* a promise's states
Settled == {"fulfilled", "rejected"}

\* the paths of the batch that starts at index i: files.slice(i, i + concurrency)
Batch(i) == {globbed[k] : k \in {j \in i..(i + concurrency - 1) : j <= Len(globbed)}}

\* scanFile(filePath) settles for a path: rejected with FILE_ERROR when the
\* file cannot be read, rejected with CONFIG_ERROR when a comment is too long
ScanFileOutcome(p) ==
    IF p \in unreadable
    THEN [status |-> "rejected", type |-> FILE_ERROR, comments |-> <<>>, io |-> 1]
    ELSE IF ScanTable[scanTree][p].throws
    THEN [status |-> "rejected", type |-> CONFIG_ERROR, comments |-> <<>>, io |-> 2]
    ELSE [status |-> "fulfilled", type |-> NoError,
          comments |-> ScanTable[scanTree][p].comments, io |-> 2]

NoFileResult == [status |-> "idle", type |-> NoError, comments |-> <<>>, io |-> 0]

\* the mutant starts every remaining file at once
StartBatch_WholeRest(files, i, all) ==
    IF i > Len(files)
    THEN /\ spc' = "done"
         /\ scanResult' = [comments |-> all]
         /\ UNCHANGED status
    ELSE /\ spc' = "batch"
         /\ status' = [p \in ScanPaths |->
                         IF \E k \in i..Len(files) : files[k] = p
                         THEN "running" ELSE status[p]]
         /\ UNCHANGED scanResult

\* scanFiles' loop head at index i: the return behind the loop, or
\* batch.map(filePath => scanFile(...)) starts every file of the batch and
\* Promise.allSettled is awaited
StartBatch(files, i, all) ==
    IF i > Len(files)
    THEN /\ spc' = "done"
         /\ scanResult' = [comments |-> all]
         /\ UNCHANGED status
    ELSE /\ spc' = "batch"
         /\ status' = [p \in ScanPaths |->
                         IF \E k \in i..(i + concurrency - 1) :
                               k <= Len(files) /\ files[k] = p
                         THEN "running" ELSE status[p]]
         /\ UNCHANGED scanResult

\* the call of one of the three exports: validateScanConfig first, then
\* glob is called, or scanFile for scanSingleFile
scanCall ==
    /\ spc = "call"
    /\ IF validateScanConfig(config)
       THEN /\ scanError' = CONFIG_ERROR
            /\ spc' = "done"
            /\ UNCHANGED <<ioCalls, status>>
       ELSE IF entry = "scanSingleFile"
       THEN /\ \E p \in {1, 2} : status' = [status EXCEPT ![p] = "running"]
            /\ spc' = "single"
            /\ UNCHANGED <<scanError, ioCalls>>
       ELSE /\ spc' = "glob"
            /\ ioCalls' = ioCalls + 1
            /\ UNCHANGED <<scanError, status>>
    /\ UNCHANGED <<entry, config, scanTree, unreadable, globbed, bi, fileResult,
                   allComments, totalCount, scanResult, pass, firstResult>>
    /\ UNCHANGED <<cleanVars, postVars, actionVars, validateVars, cliVars, raceVars>>

\* await glob(...) settled: it threw, or the file-count limit, the empty
\* result, and the first batch (scanFiles) or the counting loop
globReturn ==
    /\ spc = "glob"
    /\ \/ /\ scanError' = FILE_ERROR
          /\ spc' = "done"
          /\ UNCHANGED <<globbed, status, scanResult>>
       \/ IF TooManyFiles(GlobCount(config))
          THEN /\ scanError' = FILE_ERROR
               /\ spc' = "done"
               /\ UNCHANGED <<globbed, status, scanResult>>
          ELSE /\ globbed' = [k \in 1..GlobCount(config) |-> k]
               /\ IF entry = "countGhostComments"
                  THEN /\ spc' = "count"
                       /\ UNCHANGED <<scanError, status, scanResult>>
                  ELSE IF Len(globbed') = 0
                  THEN /\ scanResult' = [comments |-> <<>>]
                       /\ spc' = "done"
                       /\ UNCHANGED <<scanError, status>>
                  ELSE /\ StartBatch(globbed', 1, <<>>)
                       /\ UNCHANGED scanError
    /\ UNCHANGED <<entry, config, scanTree, unreadable, bi, fileResult, allComments,
                   totalCount, ioCalls, pass, firstResult>>
    /\ UNCHANGED <<cleanVars, postVars, actionVars, validateVars, cliVars, raceVars>>

\* one scanFile promise of the running batch settles; the promises of a
\* batch settle in any order
settleScanFile ==
    /\ spc = "batch"
    /\ \E p \in Batch(bi) :
          /\ status[p] = "running"
          /\ LET o == ScanFileOutcome(p)
             IN /\ status' = [status EXCEPT ![p] = o.status]
                /\ fileResult' = [fileResult EXCEPT ![p] = o]
                /\ ioCalls' = ioCalls + o.io
    /\ UNCHANGED <<entry, config, scanTree, unreadable, spc, globbed, bi, allComments,
                   totalCount, scanResult, scanError, pass, firstResult>>
    /\ UNCHANGED <<cleanVars, postVars, actionVars, validateVars, cliVars, raceVars>>

RECURSIVE CollectBatch_DropOnReject(_, _)
\* the mutant drops the whole batch once one of its promises is rejected
CollectBatch_DropOnReject(from, to) ==
    IF \E k \in from..to : k <= Len(globbed) /\ status[globbed[k]] = "rejected"
    THEN <<>>
    ELSE IF from > to \/ from > Len(globbed) THEN <<>>
    ELSE fileResult[globbed[from]].comments
         \o CollectBatch_DropOnReject(from + 1, to)

RECURSIVE CollectBatch(_, _)
\* the loop over batchResults, in batch order: a fulfilled result is pushed,
\* a rejected one is only warned about
CollectBatch(from, to) ==
    IF from > to \/ from > Len(globbed) THEN <<>>
    ELSE (IF status[globbed[from]] = "fulfilled"
          THEN fileResult[globbed[from]].comments ELSE <<>>)
         \o CollectBatch(from + 1, to)

\* await Promise.allSettled(batchPromises) resolved: every promise of the
\* batch is settled; the results are collected and the next batch starts
batchSettled ==
    /\ spc = "batch"
    /\ \A p \in Batch(bi) : status[p] \in Settled
    /\ LET all == allComments \o CollectBatch(bi, bi + concurrency - 1)
       IN /\ allComments' = all
          /\ bi' = bi + concurrency
          /\ StartBatch(globbed, bi + concurrency, all)
    /\ UNCHANGED <<entry, config, scanTree, unreadable, globbed, fileResult,
                   totalCount, scanError, ioCalls, pass, firstResult>>
    /\ UNCHANGED <<cleanVars, postVars, actionVars, validateVars, cliVars, raceVars>>

\* scanSingleFile: await scanFile(resolvedPath, ...) settled; a rejection is
\* rethrown
scanSingleFile ==
    /\ spc = "single"
    /\ \E p \in ScanPaths :
          /\ status[p] = "running"
          /\ LET o == ScanFileOutcome(p)
             IN /\ status' = [status EXCEPT ![p] = o.status]
                /\ fileResult' = [fileResult EXCEPT ![p] = o]
                /\ ioCalls' = ioCalls + o.io
                /\ IF o.status = "fulfilled"
                   THEN /\ scanResult' = [comments |-> o.comments]
                        /\ UNCHANGED scanError
                   ELSE /\ scanError' = o.type
                        /\ UNCHANGED scanResult
    /\ spc' = "done"
    /\ UNCHANGED <<entry, config, scanTree, unreadable, globbed, bi, allComments,
                   totalCount, pass, firstResult>>
    /\ UNCHANGED <<cleanVars, postVars, actionVars, validateVars, cliVars, raceVars>>

\* countGhostComments: one file of the sequential loop, stat, read and count;
\* a failure is only warned about; behind the last file the count is returned
countGhostComments ==
    /\ spc = "count"
    /\ IF bi > Len(globbed)
       THEN /\ scanResult' = [count |-> totalCount]
            /\ spc' = "done"
            /\ UNCHANGED <<bi, totalCount, ioCalls>>
       ELSE /\ IF globbed[bi] \in unreadable
               THEN /\ ioCalls' = ioCalls + 1
                    /\ UNCHANGED totalCount
               ELSE /\ ioCalls' = ioCalls + 2
                    /\ totalCount' = totalCount + ScanTable[scanTree][globbed[bi]].count
            /\ bi' = bi + 1
            /\ UNCHANGED <<scanResult, spc>>
    /\ UNCHANGED <<entry, config, scanTree, unreadable, globbed, status, fileResult,
                   allComments, scanError, pass, firstResult>>
    /\ UNCHANGED <<cleanVars, postVars, actionVars, validateVars, cliVars, raceVars>>

\* the locals of a scanner call that has not started
ScanLocals0 ==
    /\ globbed = <<>>
    /\ bi = 1
    /\ status = [p \in ScanPaths |-> "idle"]
    /\ fileResult = [p \in ScanPaths |-> NoFileResult]
    /\ allComments = <<>>
    /\ totalCount = 0
    /\ scanResult = NoScanResult
    /\ scanError = NoError
    /\ ioCalls = 0

\* the caller scans the same tree a second time with the same configuration
scanAgain ==
    /\ spc = "done"
    /\ pass = 1
    /\ pass' = 2
    /\ firstResult' = [result |-> scanResult, error |-> scanError]
    /\ spc' = "call"
    /\ globbed' = <<>>
    /\ bi' = 1
    /\ status' = [p \in ScanPaths |-> "idle"]
    /\ fileResult' = [p \in ScanPaths |-> NoFileResult]
    /\ allComments' = <<>>
    /\ totalCount' = 0
    /\ scanResult' = NoScanResult
    /\ scanError' = NoError
    /\ ioCalls' = 0
    /\ UNCHANGED <<entry, config, scanTree, unreadable>>
    /\ UNCHANGED <<cleanVars, postVars, actionVars, validateVars, cliVars, raceVars>>

\* the caller counts the annotations of the tree it has just scanned with
\* scanFiles, with the same configuration
countAgain ==
    /\ spc = "done"
    /\ pass = 1
    /\ entry = "scanFiles"
    /\ entry' = "countGhostComments"
    /\ pass' = 2
    /\ firstResult' = [result |-> scanResult, error |-> scanError]
    /\ spc' = "call"
    /\ globbed' = <<>>
    /\ bi' = 1
    /\ status' = [p \in ScanPaths |-> "idle"]
    /\ fileResult' = [p \in ScanPaths |-> NoFileResult]
    /\ allComments' = <<>>
    /\ totalCount' = 0
    /\ scanResult' = NoScanResult
    /\ scanError' = NoError
    /\ ioCalls' = 0
    /\ UNCHANGED <<config, scanTree, unreadable>>
    /\ UNCHANGED <<cleanVars, postVars, actionVars, validateVars, cliVars, raceVars>>

ScanStep ==
    \/ scanCall
    \/ globReturn
    \/ settleScanFile
    \/ batchSettled
    \/ scanSingleFile
    \/ countGhostComments
    \/ scanAgain
    \/ countAgain

\* ------------------------------------------------------- groupCommentsByFile
RECURSIVE InsertDesc(_, _)
\* insert c behind every element whose lineNumber is >= c's (stable)
InsertDesc(sorted, c) ==
    IF sorted = <<>> THEN <<c>>
    ELSE IF Head(sorted).lineNumber >= c.lineNumber
         THEN <<Head(sorted)>> \o InsertDesc(Tail(sorted), c)
         ELSE <<c>> \o sorted

RECURSIVE SortDesc(_)
\* fileComments.sort((a, b) => b.lineNumber - a.lineNumber)
SortDesc(s) ==
    IF s = <<>> THEN <<>>
    ELSE InsertDesc(SortDesc(SubSeq(s, 1, Len(s) - 1)), s[Len(s)])

RECURSIVE FirstOccurrences(_, _)
FirstOccurrences(cs, seen) ==
    IF cs = <<>> THEN <<>>
    ELSE IF Head(cs).filePath \in seen
         THEN FirstOccurrences(Tail(cs), seen)
         ELSE <<Head(cs).filePath>>
              \o FirstOccurrences(Tail(cs), seen \cup {Head(cs).filePath})

\* the keys of the Map, in insertion order
GroupKeys(cs) == FirstOccurrences(cs, {})

\* grouped.get(f)
groupCommentsByFile(cs, f) ==
    SortDesc(SelectSeq(cs, LAMBDA c : c.filePath = f))

\* ------------------------------------------------------------- cleanFile
\* the mutant checks the range only, not the text of the line
VerifyThrows_RangeOnly(lines, fileComments) ==
    \E k \in 1..Len(fileComments) :
        \/ fileComments[k].lineNumber - 1 < 0
        \/ fileComments[k].lineNumber - 1 >= Len(lines)

\* the verification loop: TRUE when some comment makes it throw
VerifyThrows(lines, fileComments) ==
    \E k \in 1..Len(fileComments) :
        LET c == fileComments[k]
        IN IF c.lineNumber - 1 < 0 \/ c.lineNumber - 1 >= Len(lines)
           THEN TRUE
           ELSE lines[c.lineNumber] # c.originalLine

\* linesToRemove, as 1-based indices
LinesToRemove(fileComments) ==
    {fileComments[k].lineNumber : k \in 1..Len(fileComments)}

RECURSIVE FilterLines_ZeroBased(_, _, _)
\* the mutant compares the 1-based line numbers with 0-based indices
FilterLines_ZeroBased(lines, remove, from) ==
    IF from > Len(lines) THEN <<>>
    ELSE (IF from - 1 \in remove THEN <<>> ELSE <<lines[from]>>)
         \o FilterLines_ZeroBased(lines, remove, from + 1)

RECURSIVE FilterLines(_, _, _)
\* lines.filter((_, index) => !linesToRemove.has(index))
FilterLines(lines, remove, from) ==
    IF from > Len(lines) THEN <<>>
    ELSE (IF from \in remove THEN <<>> ELSE <<lines[from]>>)
         \o FilterLines(lines, remove, from + 1)

\* newLines.join('\n') as the next split('\n') sees it: joining no line at
\* all gives the empty string, which splits into one empty line
JoinSplit(newLines) == IF newLines = <<>> THEN <<LineEmpty>> ELSE newLines

NewContent(lines, fileComments) ==
    JoinSplit(FilterLines(lines, LinesToRemove(fileComments), 1))

CurFile == fileOrder[fi]
CurComments == groupCommentsByFile(comments, CurFile)

\* the mutant leaves the loop at the first failed file
AfterFile_StopOnError(nErrors, nCleaned) ==
    IF fi < Len(fileOrder) /\ nErrors = 0 THEN "stat"
    ELSE IF nErrors > 0 /\ options.restoreOnError /\ ~options.dryRun /\ nCleaned > 0
         THEN "rollback"
    ELSE IF options.removeBackups /\ ~options.dryRun /\ nErrors = 0 /\ nCleaned > 0
         THEN "unlink"
    ELSE "return"

\* the mutant removes the backups of a run with failed files too
AfterFile_UnlinkDespiteErrors(nErrors, nCleaned) ==
    IF fi < Len(fileOrder) THEN "stat"
    ELSE IF nErrors > 0 /\ options.restoreOnError /\ ~options.dryRun /\ nCleaned > 0
         THEN "rollback"
    ELSE IF options.removeBackups /\ ~options.dryRun /\ nCleaned > 0
         THEN "unlink"
    ELSE "return"

\* what removeComments does once cleanFile settled for the file at index fi,
\* with nErrors files failed and nCleaned files cleaned so far: the next file,
\* or the code behind the loop
AfterFile(nErrors, nCleaned) ==
    IF fi < Len(fileOrder) THEN "stat"
    ELSE IF nErrors > 0 /\ options.restoreOnError /\ ~options.dryRun /\ nCleaned > 0
         THEN "rollback"
    ELSE IF options.removeBackups /\ ~options.dryRun /\ nErrors = 0 /\ nCleaned > 0
         THEN "unlink"
    ELSE "return"

\* cleanFile threw: removeComments' inner catch
FileFailed(d, b) ==
    /\ disk' = d
    /\ backups' = b
    /\ errorFiles' = Append(errorFiles, CurFile)
    /\ fileErrors' = Append(fileErrors, [filePath |-> CurFile, type |-> FILE_ERROR])
    /\ cpc' = AfterFile(Len(errorFiles) + 1, Len(cleanedFiles))
    /\ fi' = fi + 1
    /\ ri' = 1
    /\ backupPath' = FALSE
    /\ readLines' = <<>>
    /\ UNCHANGED <<comments, options, cwdIsRoot, fileOrder, cleanedFiles,
                   totalCommentsRemoved, cleanResult, preDisk, restored>>

\* cleanFile returned: cleanedFiles.push, totalCommentsRemoved +=
FileCleaned(d) ==
    /\ disk' = d
    /\ cleanedFiles' = Append(cleanedFiles,
            [filePath |-> CurFile, backupPath |-> backupPath,
             commentsRemoved |-> Len(CurComments)])
    /\ totalCommentsRemoved' = totalCommentsRemoved + Len(CurComments)
    /\ cpc' = AfterFile(Len(errorFiles), Len(cleanedFiles) + 1)
    /\ fi' = fi + 1
    /\ ri' = 1
    /\ backupPath' = FALSE
    /\ readLines' = <<>>
    /\ UNCHANGED <<backups, comments, options, cwdIsRoot, fileOrder, errorFiles,
                   fileErrors, cleanResult, preDisk, restored, faults>>

\* ------------------------------------------------------- removeComments
\* the call: the empty-list early return, else groupCommentsByFile
removeComments ==
    /\ cpc = "call"
    /\ preDisk' = disk
    /\ IF comments = <<>>
       THEN /\ cleanResult' = [filesProcessed |-> 0, commentsRemoved |-> 0,
                               modifiedFiles |-> <<>>, errorFiles |-> <<>>,
                               hasErrors |-> FALSE]
            /\ cpc' = "done"
            /\ UNCHANGED fileOrder
       ELSE /\ fileOrder' = GroupKeys(comments)
            /\ cpc' = "stat"
            /\ UNCHANGED cleanResult
    /\ UNCHANGED <<disk, backups, comments, options, cwdIsRoot, fi, backupPath,
                   readLines, cleanedFiles, errorFiles, fileErrors,
                   totalCommentsRemoved, ri, restored, faults>>
    /\ UNCHANGED <<postVars, actionVars, scanVars, validateVars, cliVars, raceVars>>

\* the mutant makes the backup in a dry run too
getFileStats_BackupInDryRun ==
    /\ cpc = "stat"
    /\ \/ /\ cpc' = IF options.createBackups THEN "backup" ELSE "read"
          /\ UNCHANGED <<disk, backups, comments, options, cwdIsRoot, fileOrder, fi,
                         backupPath, readLines, cleanedFiles, errorFiles, fileErrors,
                         totalCommentsRemoved, ri, cleanResult, preDisk, restored,
                         faults>>
       \/ /\ faults < MaxFaults
          /\ faults' = faults + 1
          /\ FileFailed(disk, backups)
    /\ UNCHANGED <<postVars, actionVars, scanVars, validateVars, cliVars, raceVars>>

\* cleanFile: await getFileStats(resolvedPath)
getFileStats ==
    /\ cpc = "stat"
    /\ \/ /\ cpc' = IF options.createBackups /\ ~options.dryRun THEN "backup" ELSE "read"
          /\ UNCHANGED <<disk, backups, comments, options, cwdIsRoot, fileOrder, fi,
                         backupPath, readLines, cleanedFiles, errorFiles, fileErrors,
                         totalCommentsRemoved, ri, cleanResult, preDisk, restored,
                         faults>>
       \/ /\ faults < MaxFaults
          /\ faults' = faults + 1
          /\ FileFailed(disk, backups)
    /\ UNCHANGED <<postVars, actionVars, scanVars, validateVars, cliVars, raceVars>>

\* the mutant goes on without a backup when the copy fails
createBackup_FailureGoesOn ==
    /\ cpc = "backup"
    /\ \/ /\ backups' = [backups EXCEPT ![CurFile] = disk[CurFile]]
          /\ backupPath' = TRUE
          /\ cpc' = "read"
          /\ UNCHANGED <<disk, comments, options, cwdIsRoot, fileOrder, fi, readLines,
                         cleanedFiles, errorFiles, fileErrors, totalCommentsRemoved,
                         ri, cleanResult, preDisk, restored, faults>>
       \/ /\ faults < MaxFaults
          /\ faults' = faults + 1
          /\ cpc' = "read"
          /\ UNCHANGED <<disk, backups, backupPath, comments, options, cwdIsRoot,
                         fileOrder, fi, readLines, cleanedFiles, errorFiles,
                         fileErrors, totalCommentsRemoved, ri, cleanResult, preDisk,
                         restored>>
    /\ UNCHANGED <<postVars, actionVars, scanVars, validateVars, cliVars, raceVars>>

\* cleanFile: backupPath = await createBackup(resolvedPath)
createBackup ==
    /\ cpc = "backup"
    /\ \/ /\ backups' = [backups EXCEPT ![CurFile] = disk[CurFile]]
          /\ backupPath' = TRUE
          /\ cpc' = "read"
          /\ UNCHANGED <<disk, comments, options, cwdIsRoot, fileOrder, fi, readLines,
                         cleanedFiles, errorFiles, fileErrors, totalCommentsRemoved,
                         ri, cleanResult, preDisk, restored, faults>>
       \/ /\ faults < MaxFaults
          /\ faults' = faults + 1
          /\ FileFailed(disk, backups)
    /\ UNCHANGED <<postVars, actionVars, scanVars, validateVars, cliVars, raceVars>>

\* cleanFile: await fs.readFile, split, and the verification loop; in a dry
\* run the function returns from here
readAndVerify ==
    /\ cpc = "read"
    /\ \/ /\ ~VerifyThrows(disk[CurFile], CurComments)
          /\ ~options.dryRun
          /\ readLines' = disk[CurFile]
          /\ cpc' = "write"
          /\ UNCHANGED <<disk, backups, comments, options, cwdIsRoot, fileOrder, fi,
                         backupPath, cleanedFiles, errorFiles, fileErrors,
                         totalCommentsRemoved, ri, cleanResult, preDisk, restored,
                         faults>>
       \/ /\ ~VerifyThrows(disk[CurFile], CurComments)
          /\ options.dryRun
          /\ FileCleaned(disk)
       \/ /\ VerifyThrows(disk[CurFile], CurComments)
          /\ UNCHANGED faults
          /\ FileFailed(disk, backups)
       \/ /\ faults < MaxFaults
          /\ faults' = faults + 1
          /\ FileFailed(disk, backups)
    /\ UNCHANGED <<postVars, actionVars, scanVars, validateVars, cliVars, raceVars>>

\* cleanFile: await fs.writeFile(resolvedPath, newContent), then
\* restoreFileStats, whose failure is swallowed.  A failed write leaves the
\* file as it was or truncated.
writeFile ==
    /\ cpc = "write"
    /\ \/ FileCleaned([disk EXCEPT ![CurFile] = NewContent(readLines, CurComments)])
       \/ /\ faults < MaxFaults
          /\ faults' = faults + 1
          /\ \E d \in {disk[CurFile], <<LineEmpty>>} :
                FileFailed([disk EXCEPT ![CurFile] = d], backups)
    /\ UNCHANGED <<postVars, actionVars, scanVars, validateVars, cliVars, raceVars>>

\* totalCommentsRemoved behind the rollback loop: the mutant forgets the reset
RollbackTotal_Keep(last) == totalCommentsRemoved

\* "Reset counters since we restored everything": totalCommentsRemoved = 0
\* once the rollback loop is through
RollbackTotal(last) == IF last THEN 0 ELSE totalCommentsRemoved

\* the rollback loop, one cleanedFile per step: restoreFromBackup(
\* cleanedFile.filePath, cleanedFile.backupPath).  filePath is the relative
\* path, which fs resolves against process.cwd(), not workingDirectory.
restoreFromBackup ==
    /\ cpc = "rollback"
    /\ LET cf == cleanedFiles[ri]
           last == ri = Len(cleanedFiles)
       IN /\ \/ /\ cf.backupPath
                /\ disk' = IF cwdIsRoot
                           THEN [disk EXCEPT ![cf.filePath] = backups[cf.filePath]]
                           ELSE disk
                /\ restored' = restored \cup {cf.filePath}
                /\ UNCHANGED faults
             \/ /\ cf.backupPath
                /\ faults < MaxFaults
                /\ faults' = faults + 1
                /\ UNCHANGED <<disk, restored>>
             \/ /\ ~cf.backupPath
                /\ UNCHANGED <<disk, restored, faults>>
          /\ ri' = ri + 1
          /\ cpc' = IF last THEN "return" ELSE "rollback"
          /\ totalCommentsRemoved' = RollbackTotal(last)
    /\ UNCHANGED <<backups, comments, options, cwdIsRoot, fileOrder, fi, backupPath,
                   readLines, cleanedFiles, errorFiles, fileErrors, cleanResult,
                   preDisk>>
    /\ UNCHANGED <<postVars, actionVars, scanVars, validateVars, cliVars, raceVars>>

\* the backup-removal loop, one cleanedFile per step: removeBackup swallows
\* a failed unlink
removeBackup ==
    /\ cpc = "unlink"
    /\ LET cf == cleanedFiles[ri]
       IN /\ \/ /\ cf.backupPath
                /\ backups' = [backups EXCEPT ![cf.filePath] = NoBackup]
                /\ UNCHANGED faults
             \/ /\ cf.backupPath
                /\ faults < MaxFaults
                /\ faults' = faults + 1
                /\ UNCHANGED backups
             \/ /\ ~cf.backupPath
                /\ UNCHANGED <<backups, faults>>
          /\ ri' = ri + 1
          /\ cpc' = IF ri = Len(cleanedFiles) THEN "return" ELSE "unlink"
    /\ UNCHANGED <<disk, comments, options, cwdIsRoot, fileOrder, fi, backupPath,
                   readLines, cleanedFiles, errorFiles, fileErrors,
                   totalCommentsRemoved, cleanResult, preDisk, restored>>
    /\ UNCHANGED <<postVars, actionVars, scanVars, validateVars, cliVars, raceVars>>

RECURSIVE FilePaths(_)
\* cleanedFiles.map(f => f.filePath)
FilePaths(cfs) ==
    IF cfs = <<>> THEN <<>> ELSE <<Head(cfs).filePath>> \o FilePaths(Tail(cfs))

\* removeComments' return statement
returnResult ==
    /\ cpc = "return"
    /\ cleanResult' = [filesProcessed |-> Len(fileOrder),
                       commentsRemoved |-> totalCommentsRemoved,
                       modifiedFiles |-> FilePaths(cleanedFiles),
                       errorFiles |-> errorFiles,
                       hasErrors |-> Len(errorFiles) > 0]
    /\ cpc' = "done"
    /\ UNCHANGED <<disk, backups, comments, options, cwdIsRoot, fileOrder, fi,
                   backupPath, readLines, cleanedFiles, errorFiles, fileErrors,
                   totalCommentsRemoved, ri, preDisk, restored, faults>>
    /\ UNCHANGED <<postVars, actionVars, scanVars, validateVars, cliVars, raceVars>>

CleanStep ==
    \/ removeComments
    \/ getFileStats
    \/ createBackup
    \/ readAndVerify
    \/ writeFile
    \/ restoreFromBackup
    \/ removeBackup
    \/ returnResult

\* ------------------------------------------------------ another process
\* a line no annotation list expects
LineOther == <<"y">>

\* what another process makes of a file: it appends a line or rewrites the
\* first one
OtherEdits(lines) == {Append(lines, LineOther), [lines EXCEPT ![1] = LineOther]}

\* another process writes the file cleanFile is working on, while cleanFile
\* awaits: behind createBackup and before fs.readFile resolves, or behind the
\* read and before fs.writeFile is carried out; nothing in cleanFile locks
\* the file
otherWriter ==
    /\ cpc \in {"read", "write"}
    /\ CurFile \notin otherWrote
    /\ \E d \in OtherEdits(disk[CurFile]) : disk' = [disk EXCEPT ![CurFile] = d]
    /\ otherWrote' = otherWrote \cup {CurFile}
    /\ UNCHANGED <<backups, comments, options, cwdIsRoot, cpc, fileOrder, fi,
                   backupPath, readLines, cleanedFiles, errorFiles, fileErrors,
                   totalCommentsRemoved, ri, cleanResult, preDisk, restored, faults>>
    /\ UNCHANGED <<postVars, actionVars, scanVars, validateVars, cliVars>>

\* ------------------------------------------- validateCommentsForCleaning
RECURSIVE ValidateErrors_RangeOnly(_, _, _, _)
\* the mutant does not compare the text of the line
ValidateErrors_RangeOnly(f, lines, fileComments, from) ==
    IF from > Len(fileComments) THEN <<>>
    ELSE LET c == fileComments[from]
         IN (IF c.lineNumber - 1 < 0 \/ c.lineNumber - 1 >= Len(lines)
             THEN <<[filePath |-> f, lineNumber |-> c.lineNumber, kind |-> "range"]>>
             ELSE <<>>)
            \o ValidateErrors_RangeOnly(f, lines, fileComments, from + 1)

RECURSIVE ValidateErrors(_, _, _, _)
\* the loop over one file's comments: an error per comment out of range or
\* whose line changed, and the loop goes on
ValidateErrors(f, lines, fileComments, from) ==
    IF from > Len(fileComments) THEN <<>>
    ELSE LET c == fileComments[from]
         IN (IF c.lineNumber - 1 < 0 \/ c.lineNumber - 1 >= Len(lines)
             THEN <<[filePath |-> f, lineNumber |-> c.lineNumber, kind |-> "range"]>>
             ELSE IF lines[c.lineNumber] # c.originalLine
             THEN <<[filePath |-> f, lineNumber |-> c.lineNumber, kind |-> "changed"]>>
             ELSE <<>>)
            \o ValidateErrors(f, lines, fileComments, from + 1)

\* return { valid: errors.length === 0, errors }
ValidateReturn(errs) == [valid |-> errs = <<>>, errors |-> errs]

\* the call: groupCommentsByFile; without any file the loop is empty
validateCommentsForCleaning ==
    /\ vpc = "call"
    /\ IF comments = <<>>
       THEN /\ vResult' = ValidateReturn(<<>>)
            /\ vpc' = "done"
       ELSE /\ vpc' = "file"
            /\ UNCHANGED vResult
    /\ UNCHANGED <<readOnly, vi, vErrors>>
    /\ UNCHANGED <<cleanVars, postVars, actionVars, scanVars, cliVars, raceVars>>

\* one file of the loop: fs.access(R_OK | W_OK), which fails for a file
\* that cannot be written, fs.readFile, and the check of each comment;
\* behind the last file the function returns
validateFile ==
    /\ vpc = "file"
    /\ LET f == GroupKeys(comments)[vi]
           errs == vErrors \o
                   (IF f \in readOnly
                    THEN <<[filePath |-> f, lineNumber |-> 0, kind |-> "access"]>>
                    ELSE ValidateErrors(f, disk[f], groupCommentsByFile(comments, f), 1))
       IN /\ vErrors' = errs
          /\ vi' = vi + 1
          /\ IF vi < Len(GroupKeys(comments))
             THEN UNCHANGED <<vpc, vResult>>
             ELSE /\ vpc' = "done"
                  /\ vResult' = ValidateReturn(errs)
    /\ UNCHANGED readOnly
    /\ UNCHANGED <<cleanVars, postVars, actionVars, scanVars, cliVars, raceVars>>

\* ------------------------------------------------------- the two clients
RECURSIVE Pow2(_)
Pow2(n) == IF n = 0 THEN 1 ELSE 2 * Pow2(n - 1)

\* what one postSingle* call does with a response
Return == [out |-> "return", type |-> NoError, notInDiff |-> FALSE]
Retry == [out |-> "retry", type |-> NoError, notInDiff |-> FALSE]
\* throw new GhostCommentError(type, message); notInDiff: the message
\* contains 'not in diff'
Throw(type, nid) == [out |-> "throw", type |-> type, notInDiff |-> nid]

\* the mutant retries a transient error whatever the attempt
postSingleComment_RetryForever(r, att) ==
    IF r.kind = "ok" THEN Return
    ELSE IF r.kind = "nonAxios" THEN Throw(NETWORK_ERROR, FALSE)
    ELSE IF r.status = 422 THEN Throw(GITHUB_API_ERROR, TRUE)
    ELSE IF r.status = 403 /\ r.rate THEN Throw(RATE_LIMIT_ERROR, FALSE)
    ELSE IF r.status = 401 THEN Throw(AUTH_ERROR, FALSE)
    ELSE IF r.status \in Transient THEN Retry
    ELSE Throw(GITHUB_API_ERROR, r.notInDiff)

\* the mutant also retries a 429
postSingleComment_RetryOn429(r, att) ==
    IF r.kind = "ok" THEN Return
    ELSE IF r.kind = "nonAxios" THEN Throw(NETWORK_ERROR, FALSE)
    ELSE IF r.status = 422 THEN Throw(GITHUB_API_ERROR, TRUE)
    ELSE IF r.status = 403 /\ r.rate THEN Throw(RATE_LIMIT_ERROR, FALSE)
    ELSE IF r.status = 401 THEN Throw(AUTH_ERROR, FALSE)
    ELSE IF att < maxRetries /\ r.status \in Transient \cup {429} THEN Retry
    ELSE Throw(GITHUB_API_ERROR, r.notInDiff)

\* GitHubClient.postSingleComment: the try block and its catch
postSingleComment(r, att) ==
    IF r.kind = "ok" THEN Return
    ELSE IF r.kind = "nonAxios" THEN Throw(NETWORK_ERROR, FALSE)
    ELSE IF r.status = 422 THEN Throw(GITHUB_API_ERROR, TRUE)
    ELSE IF r.status = 403 /\ r.rate THEN Throw(RATE_LIMIT_ERROR, FALSE)
    ELSE IF r.status = 401 THEN Throw(AUTH_ERROR, FALSE)
    ELSE IF att < maxRetries /\ r.status \in Transient THEN Retry
    ELSE Throw(GITHUB_API_ERROR, r.notInDiff)

\* the mutant lacks the 400 line / position case
postSingleDiscussion_NoLineCheck(r, att) ==
    IF r.kind = "ok" THEN Return
    ELSE IF r.kind = "nonAxios" THEN Throw(NETWORK_ERROR, FALSE)
    ELSE IF r.status = 429 THEN Throw(RATE_LIMIT_ERROR, FALSE)
    ELSE IF r.status = 401 THEN Throw(AUTH_ERROR, FALSE)
    ELSE IF r.status = 403 THEN Throw(AUTH_ERROR, FALSE)
    ELSE IF att < maxRetries /\ r.status \in Transient THEN Retry
    ELSE Throw(GITLAB_API_ERROR, r.notInDiff)

\* GitLabClient.postSingleDiscussion: the try block and its catch
postSingleDiscussion(r, att) ==
    IF r.kind = "ok" THEN Return
    ELSE IF r.kind = "nonAxios" THEN Throw(NETWORK_ERROR, FALSE)
    ELSE IF r.status = 400 /\ r.linePos THEN Throw(GITLAB_API_ERROR, TRUE)
    ELSE IF r.status = 429 THEN Throw(RATE_LIMIT_ERROR, FALSE)
    ELSE IF r.status = 401 THEN Throw(AUTH_ERROR, FALSE)
    ELSE IF r.status = 403 THEN Throw(AUTH_ERROR, FALSE)
    ELSE IF att < maxRetries /\ r.status \in Transient THEN Retry
    ELSE Throw(GITLAB_API_ERROR, r.notInDiff)

PostSingle(r, att) ==
    IF platform = "github" THEN postSingleComment(r, att)
    ELSE postSingleDiscussion(r, att)

\* the mutant counts a rate-limited annotation nowhere
LoopCatch_DropRateLimit(thrown) ==
    IF thrown.notInDiff THEN "skipped"
    ELSE IF thrown.type = RATE_LIMIT_ERROR THEN "dropped"
    ELSE "failed"

\* the catch of the posting loop: 'not in diff' in the message means skipped
LoopCatch(thrown) ==
    IF thrown.notInDiff THEN "skipped" ELSE "failed"

EmptyPostResult ==
    [posted |-> 0, failed |-> 0, skipped |-> 0, success |-> <<>>, errors |-> <<>>]

\* the mutant starts posting without fetching the pull request
postCall_NoFetch ==
    /\ ppc = "call"
    /\ IF comments = <<>>
       THEN /\ postResult' = EmptyPostResult
            /\ ppc' = "done"
       ELSE /\ ppc' = "send"
            /\ UNCHANGED postResult
    /\ UNCHANGED <<platform, maxRetries, commitSha, idx, attempt, result, history,
                   waits, outcomes, inFlight, postError>>
    /\ UNCHANGED <<cleanVars, actionVars, scanVars, validateVars, cliVars, raceVars>>

\* postReviewComments / postDiscussions up to the loop: the empty-list
\* return; GitHub fetches the pull request only without a commitSha, GitLab
\* always fetches the merge request
postCall ==
    /\ ppc = "call"
    /\ IF comments = <<>>
       THEN /\ postResult' = EmptyPostResult
            /\ ppc' = "done"
       ELSE /\ ppc' = IF platform = "gitlab" \/ ~commitSha THEN "fetch" ELSE "send"
            /\ UNCHANGED postResult
    /\ UNCHANGED <<platform, maxRetries, commitSha, idx, attempt, result, history,
                   waits, outcomes, inFlight, postError>>
    /\ UNCHANGED <<cleanVars, actionVars, scanVars, validateVars, cliVars, raceVars>>

\* getPullRequest / getMergeRequest answered: commitSha is filled in, or
\* the call throws and so does the post call
getPullRequest ==
    /\ ppc = "fetch"
    /\ \/ /\ commitSha' = TRUE
          /\ ppc' = "send"
          /\ UNCHANGED postError
       \/ /\ postError' = IF platform = "github" THEN GITHUB_API_ERROR
                          ELSE GITLAB_API_ERROR
          /\ ppc' = "thrown"
          /\ UNCHANGED commitSha
    /\ UNCHANGED <<platform, maxRetries, idx, attempt, result, history, waits,
                   outcomes, inFlight, postResult>>
    /\ UNCHANGED <<cleanVars, actionVars, scanVars, validateVars, cliVars, raceVars>>

\* the mutant sends the next request while one is outstanding
sendRequest_Pipelined ==
    /\ ppc \in {"send", "await"}
    /\ inFlight < 2
    /\ inFlight' = inFlight + 1
    /\ ppc' = "await"
    /\ UNCHANGED <<platform, maxRetries, commitSha, idx, attempt, result, history,
                   waits, outcomes, postResult, postError>>
    /\ UNCHANGED <<cleanVars, actionVars, scanVars, validateVars, cliVars, raceVars>>

\* await this.client.post(.../comments | .../discussions, requestBody)
sendRequest ==
    /\ ppc = "send"
    /\ inFlight' = inFlight + 1
    /\ ppc' = "await"
    /\ UNCHANGED <<platform, maxRetries, commitSha, idx, attempt, result, history,
                   waits, outcomes, postResult, postError>>
    /\ UNCHANGED <<cleanVars, actionVars, scanVars, validateVars, cliVars, raceVars>>

\* the mutant lists a skipped annotation among the errors
Settle_SkippedInErrors(r, how, code) ==
    LET res == [posted |-> result.posted + (IF how = "posted" THEN 1 ELSE 0),
                failed |-> result.failed + (IF how = "failed" THEN 1 ELSE 0),
                skipped |-> result.skipped + (IF how = "skipped" THEN 1 ELSE 0),
                success |-> IF how = "posted"
                            THEN Append(result.success, comments[idx])
                            ELSE result.success,
                errors |-> IF how \in {"failed", "skipped"}
                           THEN Append(result.errors,
                                       [comment |-> comments[idx], code |-> code])
                           ELSE result.errors]
    IN /\ result' = res
       /\ outcomes' = Append(outcomes,
              [how |-> how, code |-> code, last |-> r,
               allTransient |-> /\ r.status \in Transient
                                /\ \A k \in 1..Len(history) :
                                      history[k].status \in Transient])
       /\ history' = <<>>
       /\ waits' = <<>>
       /\ attempt' = 1
       /\ IF idx < Len(comments)
          THEN /\ ppc' = "pause"
               /\ UNCHANGED postResult
          ELSE /\ ppc' = "done"
               /\ postResult' = res

\* the annotation at idx settled as `how` ("posted", "skipped", "failed")
\* on response r: postSingle*'s frames are gone, the loop body's
\* bookkeeping, then the inter-request delay or the return
Settle(r, how, code) ==
    LET res == [posted |-> result.posted + (IF how = "posted" THEN 1 ELSE 0),
                failed |-> result.failed + (IF how = "failed" THEN 1 ELSE 0),
                skipped |-> result.skipped + (IF how = "skipped" THEN 1 ELSE 0),
                success |-> IF how = "posted"
                            THEN Append(result.success, comments[idx])
                            ELSE result.success,
                errors |-> IF how = "failed"
                           THEN Append(result.errors,
                                       [comment |-> comments[idx], code |-> code])
                           ELSE result.errors]
    IN /\ result' = res
       /\ outcomes' = Append(outcomes,
              [how |-> how, code |-> code, last |-> r,
               allTransient |-> /\ r.status \in Transient
                                /\ \A k \in 1..Len(history) :
                                      history[k].status \in Transient])
       /\ history' = <<>>
       /\ waits' = <<>>
       /\ attempt' = 1
       /\ IF idx < Len(comments)
          THEN /\ ppc' = "pause"
               /\ UNCHANGED postResult
          ELSE /\ ppc' = "done"
               /\ postResult' = res

\* the request is answered (or fails without answer): postSingle*'s catch,
\* then the loop's try / catch
receiveResponse ==
    /\ ppc = "await"
    /\ \E r \in Responses :
          LET c == PostSingle(r, attempt)
          IN /\ inFlight' = inFlight - 1
             /\ IF c.out = "retry"
                THEN /\ ppc' = "backoff"
                     /\ history' = Append(history, r)
                     /\ UNCHANGED <<result, outcomes, postResult, waits, attempt>>
                ELSE IF c.out = "return"
                     THEN Settle(r, "posted", NoError)
                     ELSE Settle(r, LoopCatch(c), c.type)
    /\ UNCHANGED <<platform, maxRetries, commitSha, idx, postError>>
    /\ UNCHANGED <<cleanVars, actionVars, scanVars, validateVars, cliVars, raceVars>>

\* await setTimeout(RETRY_BASE_DELAY * 2^(attempt-1)), then the recursive
\* call with attempt + 1
retryBackoff ==
    /\ ppc = "backoff"
    /\ waits' = Append(waits, RETRY_BASE_DELAY * Pow2(attempt - 1))
    /\ attempt' = attempt + 1
    /\ ppc' = "send"
    /\ UNCHANGED <<platform, maxRetries, commitSha, idx, result, history, outcomes,
                   inFlight, postResult, postError>>
    /\ UNCHANGED <<cleanVars, actionVars, scanVars, validateVars, cliVars, raceVars>>

\* await setTimeout(*_REQUEST_DELAY) between two annotations, then i++
requestDelay ==
    /\ ppc = "pause"
    /\ idx' = idx + 1
    /\ ppc' = "send"
    /\ UNCHANGED <<platform, maxRetries, commitSha, attempt, result, history, waits,
                   outcomes, inFlight, postResult, postError>>
    /\ UNCHANGED <<cleanVars, actionVars, scanVars, validateVars, cliVars, raceVars>>

PostStep ==
    \/ postCall
    \/ getPullRequest
    \/ sendRequest
    \/ receiveResponse
    \/ retryBackoff
    \/ requestDelay

\* ------------------------------------------------------------ rest states
CleanLocals0 ==
    /\ fileOrder = <<>>
    /\ fi = 1
    /\ backupPath = FALSE
    /\ readLines = <<>>
    /\ cleanedFiles = <<>>
    /\ errorFiles = <<>>
    /\ fileErrors = <<>>
    /\ totalCommentsRemoved = 0
    /\ ri = 1
    /\ cleanResult = NoResult
    /\ restored = {}
    /\ faults = 0

PostLocals0 ==
    /\ idx = 1
    /\ attempt = 1
    /\ result = EmptyPostResult
    /\ history = <<>>
    /\ waits = <<>>
    /\ outcomes = <<>>
    /\ inFlight = 0
    /\ postResult = NoResult
    /\ postError = NoError

\* no post call in this run
PostIdle ==
    /\ platform = "github"
    /\ maxRetries = MAX_RETRY_ATTEMPTS
    /\ commitSha = TRUE
    /\ ppc = "idle"
    /\ PostLocals0

\* the hosted action is not running
ActionIdle ==
    /\ apc = "idle"
    /\ inputs = [failOnFound |-> FALSE, cleanMode |-> TRUE, dryRun |-> FALSE]
    /\ runFailed = FALSE

\* no removeComments call in this run
CleanIdle ==
    /\ backups = [f \in Files |-> NoBackup]
    /\ options = DEFAULT_CLEAN_OPTIONS
    /\ cwdIsRoot = TRUE
    /\ cpc = "idle"
    /\ preDisk = disk
    /\ CleanLocals0

\* no scanner call in this run
ScanIdle ==
    /\ entry = "scanFiles"
    /\ config = [prefix |-> Prefix, include |-> Patterns(1), exclude |-> Patterns(0)]
    /\ scanTree = [p \in ScanPaths |-> <<LineCode>>]
    /\ unreadable = {}
    /\ spc = "idle"
    /\ pass = 1
    /\ firstResult = NoScanResult
    /\ ScanLocals0

ValidateLocals0 ==
    /\ vi = 1
    /\ vErrors = <<>>
    /\ vResult = NoResult

\* no validateCommentsForCleaning call in this run; every file is writable
ValidateIdle ==
    /\ readOnly = {}
    /\ vpc = "idle"
    /\ ValidateLocals0

\* no CLI command in this run
CliIdle ==
    /\ command = "none"
    /\ cliState = [dryRun |-> FALSE]
    /\ cmdOptions = [force |-> FALSE, backup |-> TRUE, token |-> TRUE]
    /\ unreadableFiles = {}
    /\ lpc = "idle"
    /\ exitCode = 0

\* ---------------------------------------------------------------- CleanSpec
\* removeComments on any tree, any annotation list, any options
CleanInit ==
    /\ otherWrote = {}
    /\ disk \in [Files -> Contents]
    /\ backups = [f \in Files |-> NoBackup]
    /\ comments \in CommentLists
    /\ options \in CleanOptions
    /\ cwdIsRoot \in BOOLEAN
    /\ cpc = "call"
    /\ preDisk = disk
    /\ CleanLocals0
    /\ PostIdle
    /\ ActionIdle
    /\ ScanIdle
    /\ ValidateIdle
    /\ CliIdle

CleanNext == CleanStep

CleanSpec == CleanInit /\ [][CleanNext]_vars

\* ----------------------------------------------------------------- RaceSpec
\* removeComments while another process writes the files it works on
RaceInit == CleanInit

RaceNext ==
    \/ removeComments
    \/ getFileStats
    \/ createBackup
    \/ readAndVerify
    \/ writeFile
    \/ restoreFromBackup
    \/ removeBackup
    \/ returnResult
    \/ otherWriter

RaceSpec == RaceInit /\ [][RaceNext]_vars

\* ------------------------------------------------------------- RollbackSpec
\* a tree of three files, so that a run can fail on one file and have two
\* cleaned files to roll back
RollbackFiles == Files \cup {"c.ts"}

\* one annotation for each of the three files, on line 1 or 2, scanned from
\* an annotated or a plain line
RollbackLists ==
    {<<[filePath |-> "a.ts", lineNumber |-> n[1], content |-> <<"a">>,
        prefix |-> Prefix, originalLine |-> l[1]],
       [filePath |-> "b.ts", lineNumber |-> n[2], content |-> <<"a">>,
        prefix |-> Prefix, originalLine |-> l[2]],
       [filePath |-> "c.ts", lineNumber |-> n[3], content |-> <<"a">>,
        prefix |-> Prefix, originalLine |-> l[3]]>> :
        n \in [1..3 -> {1, 2}], l \in [1..3 -> Lines]}

\* removeComments on three files, any options
RollbackInit ==
    /\ otherWrote = {}
    /\ disk \in [RollbackFiles -> Contents]
    /\ backups = [f \in RollbackFiles |-> NoBackup]
    /\ comments \in RollbackLists
    /\ options \in CleanOptions
    /\ cwdIsRoot \in BOOLEAN
    /\ cpc = "call"
    /\ preDisk = disk
    /\ CleanLocals0
    /\ PostIdle
    /\ ActionIdle
    /\ ScanIdle
    /\ ValidateIdle
    /\ CliIdle

RollbackNext ==
    \/ removeComments
    \/ getFileStats
    \/ createBackup
    \/ readAndVerify
    \/ writeFile
    \/ restoreFromBackup
    \/ removeBackup
    \/ returnResult

RollbackSpec == RollbackInit /\ [][RollbackNext]_vars

\* ----------------------------------------------------------------- PostSpec
\* the annotations of a scan: distinct lines of one file
ScannedList(n) ==
    [k \in 1..n |-> [filePath |-> "a.ts", lineNumber |-> k, content |-> <<"a">>,
                     prefix |-> Prefix, originalLine |-> LineGhost]]

\* postReviewComments / postDiscussions on any annotation list, any
\* maxRetries, with or without context.commitSha, any platform responses
PostInit ==
    /\ otherWrote = {}
    /\ disk = [f \in Files |-> <<LineGhost>>]
    /\ comments \in {ScannedList(n) : n \in 0..MaxComments}
    /\ platform \in Platforms
    /\ maxRetries \in 0..MAX_RETRY_ATTEMPTS
    /\ commitSha \in BOOLEAN
    /\ ppc = "call"
    /\ PostLocals0
    /\ CleanIdle
    /\ ActionIdle
    /\ ScanIdle
    /\ ValidateIdle
    /\ CliIdle

PostNext == PostStep

PostSpec == PostInit /\ [][PostNext]_vars

\* every await of the call settles: a request is answered or runs into the
\* client's timeout, a timer fires
PostLiveSpec == PostInit /\ [][PostNext]_vars /\ WF_vars(PostNext)

\* --------------------------------------------------------------- ActionSpec
\* run(): loadConfig and scanFiles.  Either throws into run's catch; no
\* comment found ends the run
runScan ==
    /\ apc = "start"
    /\ \/ \E readable \in SUBSET Files :
             LET found == scanFiles(disk, readable, Prefix)
             IN /\ comments' = found
                /\ apc' = IF found = <<>> THEN "done" ELSE "context"
                /\ UNCHANGED runFailed
       \/ /\ runFailed' = TRUE
          /\ apc' = "done"
          /\ UNCHANGED comments
    /\ UNCHANGED <<disk, backups, options, cwdIsRoot, cpc, fileOrder, fi, backupPath,
                   readLines, cleanedFiles, errorFiles, fileErrors,
                   totalCommentsRemoved, ri, cleanResult, preDisk, restored, faults,
                   postVars, inputs, scanVars, validateVars, cliVars, raceVars>>

\* run(): getGitHubActionsPRContext, getPRContext and, unless dry-run, new
\* GitHubClient and testConnection; then the call of postReviewComments.
\* In a dry run the comments are listed and the run ends.
runContext ==
    /\ apc = "context"
    /\ \/ /\ inputs.dryRun
          /\ apc' = "done"
          /\ UNCHANGED <<runFailed, ppc, commitSha>>
       \/ /\ ~inputs.dryRun
          /\ apc' = "posting"
          /\ ppc' = "call"
          /\ commitSha' \in BOOLEAN
          /\ UNCHANGED runFailed
       \/ /\ runFailed' = TRUE
          /\ apc' = "done"
          /\ UNCHANGED <<ppc, commitSha>>
    /\ UNCHANGED <<cleanVars, platform, maxRetries, idx, attempt, result, history,
                   waits, outcomes, inFlight, postResult, postError, inputs,
                   scanVars, validateVars, cliVars, raceVars>>

\* run() behind the clean block: fail-on-found first, then posting errors
RunVerdict == inputs.failOnFound \/ postResult.failed > 0

\* await postReviewComments returned: the outputs, then removeComments is
\* called with createBackups: false when clean-mode is on
runAfterPost ==
    /\ apc = "posting"
    /\ ppc = "done"
    /\ IF inputs.cleanMode
       THEN /\ apc' = "cleaning"
            /\ cpc' = "call"
            /\ options' = [DEFAULT_CLEAN_OPTIONS EXCEPT
                             !.createBackups = FALSE, !.dryRun = FALSE]
            /\ UNCHANGED runFailed
       ELSE /\ apc' = "done"
            /\ runFailed' = RunVerdict
            /\ UNCHANGED <<cpc, options>>
    /\ UNCHANGED <<disk, backups, comments, cwdIsRoot, fileOrder, fi, backupPath,
                   readLines, cleanedFiles, errorFiles, fileErrors,
                   totalCommentsRemoved, ri, cleanResult, preDisk, restored, faults,
                   postVars, inputs, scanVars, validateVars, cliVars, raceVars>>

\* postReviewComments threw (getPullRequest failed): run's catch
runPostThrew ==
    /\ apc = "posting"
    /\ ppc = "thrown"
    /\ runFailed' = TRUE
    /\ apc' = "done"
    /\ UNCHANGED <<cleanVars, postVars, inputs, scanVars, validateVars, cliVars, raceVars>>

\* await removeComments returned: the outputs and the verdict
runAfterClean ==
    /\ apc = "cleaning"
    /\ cpc = "done"
    /\ runFailed' = RunVerdict
    /\ apc' = "done"
    /\ UNCHANGED <<cleanVars, postVars, inputs, scanVars, validateVars, cliVars, raceVars>>

ActionInit ==
    /\ otherWrote = {}
    /\ disk \in [Files -> Contents]
    /\ comments = <<>>
    /\ CleanIdle
    /\ platform = "github"
    /\ maxRetries = MAX_RETRY_ATTEMPTS
    /\ commitSha = FALSE
    /\ ppc = "idle"
    /\ PostLocals0
    /\ apc = "start"
    /\ inputs \in [failOnFound : BOOLEAN, cleanMode : BOOLEAN, dryRun : BOOLEAN]
    /\ runFailed = FALSE
    /\ ScanIdle
    /\ ValidateIdle
    /\ CliIdle

\* run() calls removeComments with createBackups: false and removeBackups:
\* false, so createBackup and removeBackup are never reached from it
ActionNext ==
    \/ runScan
    \/ runContext
    \/ PostStep
    \/ runAfterPost
    \/ runPostThrew
    \/ removeComments
    \/ getFileStats
    \/ readAndVerify
    \/ writeFile
    \/ restoreFromBackup
    \/ returnResult
    \/ runAfterClean

ActionSpec == ActionInit /\ [][ActionNext]_vars

\* ------------------------------------------------------------------ the CLI
\* handleError: the exit code of each GhostCommentErrorType; 1 for a thrown
\* value that is no GhostCommentError
handleError(type) ==
    CASE type = CONFIG_ERROR -> 1
      [] type = FILE_ERROR -> 2
      [] type = GIT_ERROR -> 3
      [] type = GITHUB_API_ERROR -> 4
      [] type = GITLAB_API_ERROR -> 5
      [] type = AUTH_ERROR -> 6
      [] type = RATE_LIMIT_ERROR -> 7
      [] type = NETWORK_ERROR -> 8
      [] type = NoCode -> 1
      [] OTHER -> 99

\* the command ends in handleError
CliThrow(type) ==
    /\ exitCode' = handleError(type)
    /\ lpc' = "done"

\* cleanCommand behind the validation: in a dry run the comments are listed
\* and the command returns; else removeComments is called with the default
\* options, createBackups unless --no-backup
CleanDecision ==
    IF cliState.dryRun
    THEN /\ lpc' = "done"
         /\ UNCHANGED <<cpc, options, exitCode>>
    ELSE /\ lpc' = "cleaning"
         /\ cpc' = "call"
         /\ options' = [DEFAULT_CLEAN_OPTIONS EXCEPT
                          !.createBackups = cmdOptions.backup,
                          !.dryRun = cliState.dryRun]
         /\ UNCHANGED exitCode

\* the errors each command can throw up to and in scanFiles: loadConfig and
\* validateScanConfig (CONFIG_ERROR), glob (FILE_ERROR), and for `comment`
\* validateGitRepository (GIT_ERROR)
ScanThrows ==
    IF command = "comment" THEN {CONFIG_ERROR, FILE_ERROR, GIT_ERROR}
    ELSE {CONFIG_ERROR, FILE_ERROR}

\* cleanCommand / commentCommand up to the scan: loadConfig, for `comment`
\* the repository and token checks, scanFiles; no comment ends the command;
\* `clean` goes on with the validation unless --force
cliScan ==
    /\ lpc = "start"
    /\ \/ /\ \E type \in ScanThrows : CliThrow(type)
          /\ UNCHANGED <<comments, vpc, cpc, options>>
       \/ /\ command = "comment"
          /\ ~cmdOptions.token
          /\ CliThrow(AUTH_ERROR)
          /\ UNCHANGED <<comments, vpc, cpc, options>>
       \/ /\ command = "comment" => cmdOptions.token
          /\ LET found == scanFiles(disk, Files \ unreadableFiles, Prefix)
             IN /\ comments' = found
                /\ IF found = <<>>
                   THEN /\ lpc' = "done"
                        /\ UNCHANGED <<vpc, cpc, options, exitCode>>
                   ELSE IF command = "comment"
                   THEN /\ lpc' = "context"
                        /\ UNCHANGED <<vpc, cpc, options, exitCode>>
                   ELSE IF cmdOptions.force
                   THEN /\ CleanDecision
                        /\ UNCHANGED vpc
                   ELSE /\ lpc' = "validating"
                        /\ vpc' = "call"
                        /\ UNCHANGED <<cpc, options, exitCode>>
    /\ UNCHANGED <<disk, backups, cwdIsRoot, fileOrder, fi, backupPath, readLines,
                   cleanedFiles, errorFiles, fileErrors, totalCommentsRemoved, ri,
                   cleanResult, preDisk, restored, faults>>
    /\ UNCHANGED <<readOnly, vi, vErrors, vResult>>
    /\ UNCHANGED <<command, cliState, cmdOptions, unreadableFiles>>
    /\ UNCHANGED raceVars
    /\ UNCHANGED <<postVars, actionVars, scanVars>>

\* the mutant only reports an invalid list and goes on
cliAfterValidate_WarnsOnly ==
    /\ lpc = "validating"
    /\ vpc = "done"
    /\ CleanDecision
    /\ UNCHANGED <<disk, backups, comments, cwdIsRoot, fileOrder, fi, backupPath,
                   readLines, cleanedFiles, errorFiles, fileErrors,
                   totalCommentsRemoved, ri, cleanResult, preDisk, restored, faults>>
    /\ UNCHANGED <<command, cliState, cmdOptions, unreadableFiles>>
    /\ UNCHANGED raceVars
    /\ UNCHANGED <<postVars, actionVars, scanVars, validateVars>>

\* cleanCommand: await validateCommentsForCleaning returned; an invalid list
\* ends the process with exit code 1
cliAfterValidate ==
    /\ lpc = "validating"
    /\ vpc = "done"
    /\ IF ~vResult.valid
       THEN /\ exitCode' = 1
            /\ lpc' = "done"
            /\ UNCHANGED <<cpc, options>>
       ELSE CleanDecision
    /\ UNCHANGED <<disk, backups, comments, cwdIsRoot, fileOrder, fi, backupPath,
                   readLines, cleanedFiles, errorFiles, fileErrors,
                   totalCommentsRemoved, ri, cleanResult, preDisk, restored, faults>>
    /\ UNCHANGED <<command, cliState, cmdOptions, unreadableFiles>>
    /\ UNCHANGED raceVars
    /\ UNCHANGED <<postVars, actionVars, scanVars, validateVars>>

\* cleanCommand: await removeComments returned; hasErrors ends the process
\* with exit code 1
cliAfterClean ==
    /\ lpc = "cleaning"
    /\ cpc = "done"
    /\ exitCode' = IF cleanResult.hasErrors THEN 1 ELSE 0
    /\ lpc' = "done"
    /\ UNCHANGED <<command, cliState, cmdOptions, unreadableFiles>>
    /\ UNCHANGED raceVars
    /\ UNCHANGED <<cleanVars, postVars, actionVars, scanVars, validateVars>>

\* the mutant posts in a dry run too
CommentDecision_PostInDryRun == "posting"

\* commentCommand behind getGitContext: in a dry run the comments are
\* listed and the command returns; else the client is made and posts
CommentDecision == IF cliState.dryRun THEN "done" ELSE "posting"

\* the errors getGitContext throws, and those of testConnection
ContextThrows == {CONFIG_ERROR, GIT_ERROR}
ConnectionThrows ==
    {AUTH_ERROR, NETWORK_ERROR,
     IF platform = "github" THEN GITHUB_API_ERROR ELSE GITLAB_API_ERROR}

\* commentCommand from getGitContext to the call of postReviewComments /
\* postDiscussions: the context, the dry-run return, the client and
\* testConnection
cliContext ==
    /\ lpc = "context"
    /\ \/ /\ \E type \in ContextThrows : CliThrow(type)
          /\ UNCHANGED <<ppc, commitSha>>
       \/ /\ CommentDecision = "done"
          /\ lpc' = "done"
          /\ UNCHANGED <<ppc, commitSha, exitCode>>
       \/ /\ CommentDecision = "posting"
          /\ \E type \in ConnectionThrows : CliThrow(type)
          /\ UNCHANGED <<ppc, commitSha>>
       \/ /\ CommentDecision = "posting"
          /\ lpc' = "posting"
          /\ ppc' = "call"
          /\ commitSha' \in BOOLEAN
          /\ UNCHANGED exitCode
    /\ UNCHANGED <<platform, maxRetries, idx, attempt, result, history, waits,
                   outcomes, inFlight, postResult, postError>>
    /\ UNCHANGED <<command, cliState, cmdOptions, unreadableFiles>>
    /\ UNCHANGED raceVars
    /\ UNCHANGED <<cleanVars, actionVars, scanVars, validateVars>>

\* commentCommand: the post call returned; failed comments end the process
\* with exit code 1
cliAfterPost ==
    /\ lpc = "posting"
    /\ ppc = "done"
    /\ exitCode' = IF postResult.failed > 0 THEN 1 ELSE 0
    /\ lpc' = "done"
    /\ UNCHANGED <<command, cliState, cmdOptions, unreadableFiles>>
    /\ UNCHANGED raceVars
    /\ UNCHANGED <<cleanVars, postVars, actionVars, scanVars, validateVars>>

\* commentCommand: the post call threw: handleError
cliPostThrew ==
    /\ lpc = "posting"
    /\ ppc = "thrown"
    /\ CliThrow(postError)
    /\ UNCHANGED <<command, cliState, cmdOptions, unreadableFiles>>
    /\ UNCHANGED raceVars
    /\ UNCHANGED <<cleanVars, postVars, actionVars, scanVars, validateVars>>

\* ---------------------------------------------------------------- FrontSpec
\* "remove me" and "keep this too"
RemoveMe == <<"r", "e", "m", "o", "v", "e", " ", "m", "e">>
KeepThisToo == <<"k", "e", "e", "p", " ", "t", "h", "i", "s", " ", "t", "o", "o">>

\* a file of ten lines whose lines 3 and 9 are annotations written with the
\* prefix spelled `pre`
ScenarioFile(pre) ==
    <<LineCode, LineCode, pre \o <<" ">> \o RemoveMe, LineCode, LineCode, LineCode,
      LineCode, LineCode, pre \o <<" ">> \o KeepThisToo, LineCode>>

\* the trees of CleanSpec, and the scenario file next to a file without
\* annotation, its annotations spelled as the README spells them or with
\* the configured prefix
FrontTrees ==
    [Files -> Contents]
    \cup {[f \in Files |-> IF f = "a.ts" THEN ScenarioFile(pre) ELSE <<LineCode>>] :
            pre \in {SpacedPrefix, Prefix}}

\* one run of a front end on any of the trees: the hosted action with any
\* inputs, or the CLI's `clean` or `comment` with any options
FrontInit ==
    /\ otherWrote = {}
    /\ disk \in FrontTrees
    /\ comments = <<>>
    /\ CleanIdle
    /\ maxRetries = MAX_RETRY_ATTEMPTS
    /\ commitSha = FALSE
    /\ ppc = "idle"
    /\ PostLocals0
    /\ ScanIdle
    /\ vpc = "idle"
    /\ ValidateLocals0
    /\ \/ /\ apc = "start"
          /\ inputs \in [failOnFound : BOOLEAN, cleanMode : BOOLEAN, dryRun : BOOLEAN]
          /\ runFailed = FALSE
          /\ platform = "github"
          /\ readOnly = {}
          /\ CliIdle
       \/ /\ ActionIdle
          /\ command = "clean"
          /\ platform = "github"
          /\ cliState \in [dryRun : BOOLEAN]
          /\ cmdOptions \in [force : BOOLEAN, backup : BOOLEAN, token : {TRUE}]
          /\ unreadableFiles \in {{}, {"b.ts"}}
          /\ readOnly \in {{}, {"b.ts"}}
          /\ lpc = "start"
          /\ exitCode = 0
       \/ /\ ActionIdle
          /\ command = "comment"
          /\ platform \in Platforms
          /\ cliState \in [dryRun : BOOLEAN]
          /\ cmdOptions \in [force : {FALSE}, backup : {TRUE}, token : BOOLEAN]
          /\ unreadableFiles \in {{}, {"b.ts"}}
          /\ readOnly = {}
          /\ lpc = "start"
          /\ exitCode = 0

\* the CLI never sets removeBackups, the hosted action neither, so
\* removeBackup is never reached
FrontNext ==
    \/ runScan
    \/ runContext
    \/ runAfterPost
    \/ runPostThrew
    \/ runAfterClean
    \/ cliScan
    \/ validateCommentsForCleaning
    \/ validateFile
    \/ cliAfterValidate
    \/ cliAfterClean
    \/ cliContext
    \/ cliAfterPost
    \/ cliPostThrew
    \/ PostStep
    \/ removeComments
    \/ getFileStats
    \/ createBackup
    \/ readAndVerify
    \/ writeFile
    \/ restoreFromBackup
    \/ returnResult

FrontSpec == FrontInit /\ [][FrontNext]_vars

\* ----------------------------------------------------------------- ScanSpec
\* scanFiles, scanSingleFile or countGhostComments with any configuration,
\* on a tree with or without an oversized annotation and with or without
\* unreadable files; the call is then repeated on the same tree
ScanInit ==
    /\ otherWrote = {}
    /\ entry \in {"scanFiles", "scanSingleFile", "countGhostComments"}
    /\ config \in ScanConfigs
    /\ scanTree \in ScanTrees
    /\ unreadable \in UnreadableSets
    /\ spc = "call"
    /\ pass = 1
    /\ firstResult = NoScanResult
    /\ ScanLocals0
    /\ disk = [f \in Files |-> <<LineGhost>>]
    /\ comments = <<>>
    /\ CleanIdle
    /\ PostIdle
    /\ ActionIdle
    /\ ValidateIdle
    /\ CliIdle

ScanNext == ScanStep

ScanSpec == ScanInit /\ [][ScanNext]_vars

\* ----------------------------------------------------------------- LineSpec
\* scanSingleFile with the default configuration on a file that holds one
\* line built around the prefix
LineInit ==
    /\ otherWrote = {}
    /\ entry = "scanSingleFile"
    /\ config = [prefix |-> Prefix, include |-> Patterns(1), exclude |-> Patterns(0)]
    /\ scanTree \in LineTrees
    /\ unreadable \in {{}, {1}}
    /\ spc = "call"
    /\ pass = 1
    /\ firstResult = NoScanResult
    /\ ScanLocals0
    /\ disk = [f \in Files |-> <<LineGhost>>]
    /\ comments = <<>>
    /\ CleanIdle
    /\ PostIdle
    /\ ActionIdle
    /\ ValidateIdle
    /\ CliIdle

LineNext ==
    \/ scanCall
    \/ scanSingleFile

LineSpec == LineInit /\ [][LineNext]_vars

\* ------------------------------------------------------------- ValidateSpec
\* validateCommentsForCleaning, then a dry run of removeComments on the
\* same tree and the same annotations; some files may be read-only
ValidateInit ==
    /\ otherWrote = {}
    /\ disk \in [Files -> Contents]
    /\ backups = [f \in Files |-> NoBackup]
    /\ comments \in CommentLists
    /\ options \in {o \in CleanOptions : o.dryRun}
    /\ cwdIsRoot = TRUE
    /\ cpc = "call"
    /\ preDisk = disk
    /\ CleanLocals0
    /\ readOnly \in SUBSET Files
    /\ vpc = "call"
    /\ ValidateLocals0
    /\ PostIdle
    /\ ActionIdle
    /\ ScanIdle
    /\ CliIdle

\* the caller awaits the validation, then calls removeComments; in a dry
\* run removeComments reaches neither createBackup nor writeFile nor the
\* rollback nor the backup removal
ValidateNext ==
    \/ validateCommentsForCleaning
    \/ validateFile
    \/ vpc = "done" /\ removeComments
    \/ getFileStats
    \/ readAndVerify
    \/ returnResult

ValidateSpec == ValidateInit /\ [][ValidateNext]_vars

\* ================================================================== claims

\* a line of `lines` targeted by comment c is no longer the recorded one:
\* out of range, or another text
Mismatch(lines, c) ==
    IF c.lineNumber > Len(lines) THEN TRUE
    ELSE lines[c.lineNumber] # c.originalLine

\* the range of a sequence
Range(seq) == {seq[k] : k \in 1..Len(seq)}

Returned == cpc = "done" /\ cleanResult # NoResult

\* C1 (as claimed): when a removeComments run with restoreOnError and without
\* dryRun had a failing file and returns, every cleaned file has its
\* pre-clean content again, hasErrors is true and commentsRemoved is 0.
C1_RollbackRestoresCleaned ==
    (Returned /\ options.restoreOnError /\ ~options.dryRun /\ errorFiles # <<>>)
    => /\ \A k \in 1..Len(cleanedFiles) :
             disk[cleanedFiles[k].filePath] = preDisk[cleanedFiles[k].filePath]
       /\ cleanResult.hasErrors
       /\ cleanResult.commentsRemoved = 0

\* C2: a file with a targeted line that differs from originalLine when it is
\* cleaned keeps its content throughout, and once its cleanFile settled it
\* is an error file whose error is a FILE_ERROR.
C2_MismatchFailsAndKeepsFile ==
    \A k \in 1..Len(fileOrder) :
        LET f == fileOrder[k]
        IN (\E j \in 1..Len(comments) :
               comments[j].filePath = f /\ Mismatch(preDisk[f], comments[j]))
           => /\ disk[f] = preDisk[f]
              /\ k < fi => /\ f \in Range(errorFiles)
                           /\ f \notin {cleanedFiles[j].filePath :
                                          j \in 1..Len(cleanedFiles)}
                           /\ \A j \in 1..Len(fileErrors) :
                                 fileErrors[j].filePath = f
                                 => fileErrors[j].type = FILE_ERROR

\* C2's case: a real run is over in which a file had one targeted line that
\* still matched and one that did not, and the file failed
C2_Witness ==
    /\ Returned
    /\ ~options.dryRun
    /\ faults = 0
    /\ \E f \in Range(errorFiles) :
          /\ \E j \in 1..Len(comments) :
                comments[j].filePath = f /\ Mismatch(preDisk[f], comments[j])
          /\ \E j \in 1..Len(comments) :
                comments[j].filePath = f /\ ~Mismatch(preDisk[f], comments[j])

Posted == ppc = "done" /\ postResult # NoResult

\* C3: every result of postReviewComments / postDiscussions has
\* posted + failed + skipped equal to the number of annotations submitted.
C3_PostArithmetic ==
    Posted =>
        postResult.posted + postResult.failed + postResult.skipped = Len(comments)

\* C3's case: a post of two annotations returned, one failed and one skipped
C3_Witness ==
    /\ Posted
    /\ Len(comments) = 2
    /\ postResult.failed = 1
    /\ postResult.skipped = 1

\* the line an annotation was scanned from is still in its file
LinePresent(c) == \E k \in 1..Len(disk[c.filePath]) : disk[c.filePath][k] = c.originalLine

\* C4 (as claimed): when a run of the hosted action with clean-mode on and
\* dry-run off ends, the line of every annotation whose post failed is still
\* in its file.
C4_FailedPostNotCleaned ==
    (apc = "done" /\ inputs.cleanMode /\ ~inputs.dryRun)
    => \A k \in 1..Len(outcomes) :
          outcomes[k].how = "failed" => LinePresent(comments[k])

\* C5 (as claimed): once a comment-creation request was answered with 401
\* the post call has failed with an AUTH_ERROR: it returns no result, and no
\* further request is sent or about to be sent.
C5_AuthFailsWholePost ==
    (\E k \in 1..Len(outcomes) : outcomes[k].last.status = 401)
    => /\ ppc = "thrown"
       /\ postError = AUTH_ERROR
       /\ postResult = NoResult
       /\ inFlight = 0

\* requests sent so far for the annotation at idx
SentForCurrent == Len(history) + inFlight

\* C6 (as claimed): at most maxRetries requests per annotation; the wait
\* before retry k is RETRY_BASE_DELAY * 2^(k-1); an annotation all of whose
\* responses were 500/502/503/504 ends as failed.
C6_RetryBound ==
    /\ SentForCurrent <= maxRetries
    /\ \A k \in 1..Len(waits) : waits[k] = RETRY_BASE_DELAY * Pow2(k - 1)
    /\ \A k \in 1..(Len(waits) - 1) : waits[k] < waits[k + 1]
    /\ \A k \in 1..Len(outcomes) :
          outcomes[k].allTransient => outcomes[k].how = "failed"

\* C7: while an annotation is being tried, every response it received so
\* far was a 500, 502, 503 or 504 (so a request is re-sent only after one of
\* these), and requests are only ever sent for the first annotation that has
\* not settled yet (so none is sent after any other outcome).
C7_ResendOnlyAfterTransient ==
    /\ \A k \in 1..Len(history) :
          history[k].kind = "http" /\ history[k].status \in Transient
    /\ ppc \in {"send", "await", "backoff"} => idx = Len(outcomes) + 1
    /\ inFlight > 0 => ppc = "await"

\* C7's case: the first annotation got no response at all and settled, the
\* second is being re-sent after a first response
C7_Witness ==
    /\ ppc = "await"
    /\ Len(history) = 1
    /\ Len(outcomes) = 1
    /\ outcomes[1].last.kind = "noResponse"

\* the platform's "line is not part of the diff" response
DiffSkip(r) ==
    IF platform = "github" THEN r.kind = "http" /\ r.status = 422
    ELSE r.kind = "http" /\ r.status = 400 /\ r.linePos

\* C8: the step that settles an annotation on a diff-skip response adds one
\* to skipped and nothing else: posted, failed, the success list and the
\* error list stay, and posting goes on with the next annotation if any.
C8_DiffSkipIsSkipped ==
    [][(Len(outcomes') = Len(outcomes) + 1 /\ DiffSkip(outcomes'[Len(outcomes')].last))
       => /\ outcomes'[Len(outcomes')].how = "skipped"
          /\ result'.skipped = result.skipped + 1
          /\ result'.posted = result.posted
          /\ result'.failed = result.failed
          /\ result'.errors = result.errors
          /\ result'.success = result.success
          /\ idx < Len(comments) => ppc' = "pause"
          /\ idx = Len(comments) => ppc' = "done" /\ postResult' = result']_vars

\* C8's case: two annotations, the first posted, the second rejected as not
\* in the diff, and the result {posted: 1, skipped: 1, failed: 0}
C8_Witness ==
    /\ Posted
    /\ Len(comments) = 2
    /\ outcomes[1].how = "posted"
    /\ DiffSkip(outcomes[2].last)
    /\ postResult.posted = 1
    /\ postResult.skipped = 1
    /\ postResult.failed = 0
    /\ postResult.errors = <<>>

\* a rate-limit signal: 429, or 403 with reset / retry-after headers
RateLimited(r) ==
    r.kind = "http" /\ (r.status = 429 \/ (r.status = 403 /\ r.rate))

\* C9 (as claimed): in both clients an annotation answered with a rate-limit
\* signal is failed with RATE_LIMIT_ERROR without a retry, and reported in
\* the error list.
C9_RateLimitError ==
    \A k \in 1..Len(outcomes) :
        RateLimited(outcomes[k].last)
        => /\ outcomes[k].how = "failed"
           /\ outcomes[k].code = RATE_LIMIT_ERROR
           /\ \E j \in 1..Len(result.errors) :
                 /\ result.errors[j].comment = comments[k]
                 /\ result.errors[j].code = RATE_LIMIT_ERROR

\* C10 (as claimed): commentsRemoved <= number of annotations, and with
\* hasErrors and restoreOnError commentsRemoved is 0 whatever dryRun is.
C10_CleanArithmeticAnyDryRun ==
    Returned =>
        /\ cleanResult.commentsRemoved <= Len(comments)
        /\ (cleanResult.hasErrors /\ options.restoreOnError)
           => cleanResult.commentsRemoved = 0

\* C10 (amended): commentsRemoved <= number of annotations, and with
\* hasErrors and restoreOnError commentsRemoved is 0 unless the run is a dry
\* run.
C10_CleanArithmetic ==
    Returned =>
        /\ cleanResult.commentsRemoved <= Len(comments)
        /\ (cleanResult.hasErrors /\ options.restoreOnError /\ ~options.dryRun)
           => cleanResult.commentsRemoved = 0

\* C10's case: a run with restoreOnError that is no dry run cleaned one file,
\* failed on another and returned
C10_Witness ==
    /\ Returned
    /\ options.restoreOnError
    /\ ~options.dryRun
    /\ cleanResult.hasErrors
    /\ cleanedFiles # <<>>
    /\ cleanResult.commentsRemoved = 0

\* scanFiles ran through: the configuration was accepted and glob returned
ScanRan == entry = "scanFiles" /\ spc = "done" /\ globbed # <<>>

\* per tree and path: some line of the file matches the prefix and its
\* trimmed remainder is longer than MAX_COMMENT_LENGTH
LongContent ==
    [t \in ScanTrees |->
        [p \in ScanPaths |->
            \E k \in 1..Len(t[p]) :
                LET m == MatchLine(t[p][k], Prefix)
                IN m.matched /\ Len(Trim(m.capture)) > MAX_COMMENT_LENGTH]]

\* a readable file of the tree holds an annotation whose trimmed content is
\* longer than MAX_COMMENT_LENGTH
Oversized(p) == p \notin unreadable /\ LongContent[scanTree][p]

\* C11: if a matched annotation of a scanned file is longer than
\* MAX_COMMENT_LENGTH, scanFiles throws CONFIG_ERROR and returns no list
C11_OversizedFailsScan ==
    (ScanRan /\ \E p \in Range(globbed) : Oversized(p))
        => scanError = CONFIG_ERROR /\ scanResult = NoScanResult

RECURSIVE ReadableComments(_)
\* the annotations of the readable files from path `from` on, in glob order
ReadableComments(from) ==
    IF from > MaxScanFiles THEN <<>>
    ELSE (IF from \in unreadable THEN <<>> ELSE ScanTable[scanTree][from].comments)
         \o ReadableComments(from + 1)

\* C12: on a tree without oversized annotation, scanFiles with unreadable
\* files completes normally and returns the annotations of every readable
\* file, those of the batch of an unreadable file included
C12_UnreadableFileSkipped ==
    (ScanRan /\ \A p \in ScanPaths : ~Oversized(p))
        => /\ scanError = NoError
           /\ scanResult = [comments |-> ReadableComments(1)]

\* an unreadable file in each batch; the result holds the annotations of
\* path 2, a sibling of the unreadable path 1
C12_Witness ==
    /\ ScanRan
    /\ \A p \in ScanPaths : ~Oversized(p)
    /\ unreadable = {1, MaxScanFiles}
    /\ scanError = NoError
    /\ \E k \in 1..Len(scanResult.comments) : scanResult.comments[k].filePath = 2

\* the configuration violates one of the limits the claim lists
BadConfig ==
    \/ Len(config.prefix) = 0
    \/ Len(config.prefix) > MAX_PREFIX_LENGTH
    \/ Len(config.include) = 0
    \/ Len(config.include) > MAX_INCLUDE_PATTERNS
    \/ Len(config.exclude) > MAX_EXCLUDE_PATTERNS

\* C13: with an empty or oversized prefix, an empty include list or too
\* many include / exclude patterns, each of scanFiles, scanSingleFile and
\* countGhostComments makes no glob, stat or read call and ends throwing
\* CONFIG_ERROR
C13_ConfigErrorBeforeIO ==
    (BadConfig /\ spc # "idle")
        => /\ ioCalls = 0
           /\ globbed = <<>>
           /\ \A p \in ScanPaths : status[p] = "idle"
           /\ spc \in {"call", "done"}
           /\ spc = "done" => scanError = CONFIG_ERROR /\ scanResult = NoScanResult

\* countGhostComments rejected a configuration whose only fault is the
\* number of exclude patterns
C13_Witness ==
    /\ entry = "countGhostComments"
    /\ spc = "done"
    /\ config.prefix = Prefix
    /\ Len(config.include) = 1
    /\ Len(config.exclude) = MAX_EXCLUDE_PATTERNS + 1
    /\ scanError = CONFIG_ERROR
    /\ ioCalls = 0

BatchOf(k) == (k - 1) \div concurrency

\* C15: at most 10 scanFile calls are in flight; a file of a later batch is
\* started only when every file of the earlier batches has settled; when
\* scanFiles returns every file has settled and the annotations of every
\* fulfilled file are in the result, whatever happened to its siblings
C15_BatchedScan ==
    entry = "scanFiles"
        => /\ Cardinality({p \in ScanPaths : status[p] = "running"}) <= 10
           /\ \A i, j \in 1..Len(globbed) :
                 (BatchOf(i) < BatchOf(j) /\ status[globbed[j]] # "idle")
                     => status[globbed[i]] \in Settled
           /\ ScanRan /\ scanError = NoError =>
                 \A p \in Range(globbed) :
                     /\ status[p] \in Settled
                     /\ status[p] = "fulfilled" =>
                           Range(fileResult[p].comments) \subseteq Range(scanResult.comments)

\* the second batch runs after a first batch in which path 1 was rejected
\* and its sibling path 2 fulfilled; then the result holds path 2's annotations
C15_Witness ==
    /\ ScanRan
    /\ scanError = NoError
    /\ status[1] = "rejected"
    /\ status[2] = "fulfilled"
    /\ status[MaxScanFiles] = "fulfilled"
    /\ \E k \in 1..Len(scanResult.comments) : scanResult.comments[k].filePath = 2
    /\ \E k \in 1..Len(scanResult.comments) :
          scanResult.comments[k].filePath = MaxScanFiles

\* C16: never more than one comment-creation request is outstanding; a
\* request is sent only when none is outstanding and every earlier
\* annotation has its final outcome; the loop moves to the next annotation
\* of the list only through the inter-request delay, once the current one
\* has its outcome
C16_SequentialPosting ==
    /\ [](inFlight <= 1)
    /\ [][/\ inFlight' > inFlight => inFlight = 0 /\ Len(outcomes) = idx - 1
          /\ idx' # idx => idx' = idx + 1 /\ ppc = "pause" /\ Len(outcomes) = idx]_vars

\* the request for the second annotation is outstanding after the first
\* one failed through all its retries
C16_Witness ==
    /\ idx = 2
    /\ inFlight = 1
    /\ Len(outcomes) = 1
    /\ outcomes[1].how = "failed"
    /\ outcomes[1].allTransient
    /\ maxRetries > 1

NoBackups == [f \in Files |-> NoBackup]

\* C17: in a dry run removeComments leaves every file as it was, creates no
\* backup and restores nothing
C17_DryRunTouchesNothing ==
    (options.dryRun /\ cpc # "idle")
        => disk = preDisk /\ backups = NoBackups /\ restored = {}

\* a dry run with every other option set returned with a failed file and a
\* file it would have cleaned
C17_Witness ==
    /\ Returned
    /\ options.dryRun /\ options.createBackups
    /\ options.restoreOnError /\ options.removeBackups
    /\ cleanResult.hasErrors
    /\ cleanResult.commentsRemoved > 0

\* C18: once removeComments has returned from a run that succeeded with
\* removeBackups, or from a run that failed and rolled back, no backup file
\* remains
C18_NoBackupOutlivesRun ==
    (/\ Returned
     /\ ~options.dryRun
     /\ \/ ~cleanResult.hasErrors /\ options.removeBackups
        \/ cleanResult.hasErrors /\ options.restoreOnError)
        => backups = NoBackups

\* the run meets the three conditions of the backup removal
RemovalDue == options.removeBackups /\ ~options.dryRun /\ errorFiles = <<>>

\* C19: a backup file disappears only when removeBackups is set, the run is
\* not a dry run and no file failed; such a run ends without error, and with
\* the backup of every cleaned file gone unless an unlink failed
C19_BackupRemoval ==
    /\ [][(\E f \in Files : backups[f] # NoBackup /\ backups'[f] = NoBackup)
             => RemovalDue]_vars
    /\ [](Returned /\ RemovalDue /\ comments # <<>>
            => /\ ~cleanResult.hasErrors
               /\ faults = 0 =>
                    \A k \in 1..Len(cleanedFiles) :
                        backups[cleanedFiles[k].filePath] = NoBackup)

\* two files were cleaned with backups and both backups are deleted
C19_Witness ==
    /\ Returned
    /\ RemovalDue
    /\ options.createBackups
    /\ Len(cleanedFiles) = 2
    /\ cleanedFiles[1].backupPath /\ cleanedFiles[2].backupPath
    /\ backups = NoBackups
    /\ disk # preDisk

\* validateCommentsForCleaning and the dry run both returned, and no
\* file-system call of the dry run failed
BothReturned == vpc = "done" /\ Returned /\ options.dryRun /\ faults = 0

C21_CountEqualsScanLength ==
    (/\ entry = "countGhostComments"
     /\ spc = "done"
     /\ pass = 2
     /\ "comments" \in DOMAIN firstResult.result
     /\ "count" \in DOMAIN scanResult)
        => scanResult.count = Len(firstResult.result.comments)

\* C24: a comment-creation request is sent only once commitSha is set; a post
\* call with annotations and without commitSha fetches the PR / MR first; a
\* fetch that leaves commitSha empty has failed and makes the call throw; and
\* a call that threw has sent no request and sends none
C24_CommitShaBeforeFirstRequest ==
    [][/\ inFlight' > inFlight => commitSha
       /\ (ppc = "call" /\ ~commitSha /\ comments # <<>>) => ppc' = "fetch"
       /\ (ppc = "fetch" /\ ppc' = "send") => commitSha'
       /\ (ppc = "fetch" /\ ppc' # "send")
             => ppc' = "thrown" /\ postError' # NoError /\ postResult' = NoResult
       /\ ppc' = "thrown" => inFlight' = 0 /\ outcomes' = <<>> /\ history' = <<>>
       /\ ppc = "thrown" => ppc' = "thrown"]_vars

\* C24's case: GitHub, two annotations, no commitSha, and the fetch of the
\* pull request failed
C24_Witness ==
    /\ platform = "github"
    /\ Len(comments) = 2
    /\ ~commitSha
    /\ ppc = "thrown"
    /\ postError = GITHUB_API_ERROR
    /\ inFlight = 0

\* the most requests one annotation is sent: the first one is unconditional
MaxAttempts == IF maxRetries > 1 THEN maxRetries ELSE 1

\* a settled annotation ended in exactly one of the three ways, a failed one
\* with its error kind
TerminalOutcome(o) ==
    /\ o.how \in {"posted", "skipped", "failed"}
    /\ o.how = "posted" <=> o.last.kind = "ok"
    /\ o.how = "posted" <=> o.code = NoError

\* C25 (as claimed): every post call eventually returns with one outcome per
\* annotation
C25_EveryAnnotationSettles ==
    <>(ppc = "done" /\ Len(outcomes) = Len(comments))

\* C25 (amended): every post call ends: it throws at the fetch of the PR / MR
\* with no annotation attempted, or it returns with exactly one outcome per
\* annotation; no annotation is sent more than MaxAttempts times and a
\* recorded outcome never changes
C25_PostTerminates ==
    /\ <>(\/ /\ ppc = "done"
              /\ postResult # NoResult
              /\ Len(outcomes) = Len(comments)
              /\ \A k \in 1..Len(outcomes) : TerminalOutcome(outcomes[k])
           \/ /\ ppc = "thrown"
              /\ outcomes = <<>>
              /\ inFlight = 0)
    /\ [](/\ attempt <= MaxAttempts
          /\ SentForCurrent <= MaxAttempts
          /\ Len(outcomes) <= Len(comments))
    /\ [][\A k \in 1..Len(outcomes) :
             Len(outcomes') >= k /\ outcomes'[k] = outcomes[k]]_vars

\* C25's case: a call with two annotations returned; the first was sent
\* MAX_RETRY_ATTEMPTS times and failed, the second was posted
C25_Witness ==
    /\ Posted
    /\ Len(comments) = 2
    /\ maxRetries = MAX_RETRY_ATTEMPTS
    /\ Len(outcomes) = 2
    /\ outcomes[1].allTransient
    /\ outcomes[1].how = "failed"
    /\ outcomes[2].how = "posted"

\* C26: with createBackups and without dryRun, every step that changes a
\* file of the tree finds a backup of that file holding its content at the
\* call, and the file is none of the failed ones; a createBackup that fails
\* leaves the tree alone, reports the file in errorFiles and moves on
C26_BackupBeforeWrite ==
    [][(options.createBackups /\ ~options.dryRun)
       => /\ \A f \in Files :
                disk'[f] # disk[f]
                => backups[f] = preDisk[f] /\ f \notin Range(errorFiles)
          /\ (cpc = "backup" /\ cpc' # "read")
                => /\ disk' = disk
                   /\ backups' = backups
                   /\ errorFiles' = Append(errorFiles, CurFile)
                   /\ fi' = fi + 1]_vars

\* C26's case: a run with backups returned; one file was rewritten and its
\* backup holds the old content, the other failed before any backup of it
\* was made and was not written
C26_Witness ==
    /\ Returned
    /\ options.createBackups
    /\ ~options.dryRun
    /\ ~options.restoreOnError
    /\ faults = 1
    /\ \E f, g \in Files :
          /\ disk[f] # preDisk[f]
          /\ backups[f] = preDisk[f]
          /\ g \in Range(errorFiles)
          /\ \A j \in 1..Len(comments) :
                comments[j].filePath = g => ~Mismatch(preDisk[g], comments[j])
          /\ backups[g] = NoBackup
          /\ disk[g] = preDisk[g]

\* C28 (as claimed): when fail-on-found is on and the scan found an
\* annotation, the run of the hosted action ends failed, whatever dry-run and
\* clean-mode are and however the posting went
C28_FailOnFoundFailsRun ==
    (apc = "done" /\ inputs.failOnFound /\ comments # <<>>) => runFailed

\* C29 (as claimed): every path in modifiedFiles of a removeComments result
\* names a file whose content at the return differs from its content at the
\* call
C29_ModifiedFilesWereModified ==
    Returned =>
        \A k \in 1..Len(cleanResult.modifiedFiles) :
            disk[cleanResult.modifiedFiles[k]] # preDisk[cleanResult.modifiedFiles[k]]

\* the distinct files of the annotation list
DistinctFiles == {comments[k].filePath : k \in 1..Len(comments)}

\* the files cleanFile settled for so far, in the order of the loop
Attempted == FilePaths(cleanedFiles) \o errorFiles

\* C30: at any time the files cleanFile settled for are the first fi - 1 keys
\* of the Map, each once, in cleanedFiles or in errorFiles; while a file is
\* being cleaned no other file and no other backup changes; a failed file is
\* followed by the next file of the Map if there is one; and the result has
\* every distinct file in exactly one of modifiedFiles and errorFiles,
\* filesProcessed the number of distinct files, hasErrors true exactly when
\* errorFiles is not empty
C30_EveryFileOnce ==
    /\ [](cpc \notin {"idle", "call"}
          => /\ Len(Attempted) = fi - 1
             /\ Range(Attempted) = {fileOrder[k] : k \in 1..(fi - 1)}
             /\ Range(FilePaths(cleanedFiles)) \cap Range(errorFiles) = {}
             /\ Cardinality(Range(Attempted)) = Len(Attempted)
             /\ Range(fileOrder) = DistinctFiles
             /\ Cardinality(DistinctFiles) = Len(fileOrder))
    /\ [](Returned /\ comments # <<>>
          => /\ fi = Len(fileOrder) + 1
             /\ cleanResult.filesProcessed = Cardinality(DistinctFiles)
             /\ Range(cleanResult.modifiedFiles) \cup Range(cleanResult.errorFiles)
                   = DistinctFiles
             /\ Range(cleanResult.modifiedFiles) \cap Range(cleanResult.errorFiles) = {}
             /\ Len(cleanResult.modifiedFiles) + Len(cleanResult.errorFiles)
                   = Cardinality(DistinctFiles)
             /\ cleanResult.hasErrors <=> cleanResult.errorFiles # <<>>)
    /\ [][(cpc \in {"stat", "backup", "read", "write"})
          => /\ \A f \in Files \ {CurFile} :
                   disk'[f] = disk[f] /\ backups'[f] = backups[f]
             /\ (Len(errorFiles') > Len(errorFiles) /\ fi < Len(fileOrder))
                   => (cpc' = "stat" /\ fi' = fi + 1)]_vars

\* C30's case: two files; the first failed, the second was cleaned behind
\* it, and the run returned
C30_Witness ==
    /\ Returned
    /\ ~options.dryRun
    /\ Len(fileOrder) = 2
    /\ cleanResult.errorFiles = <<fileOrder[1]>>
    /\ cleanResult.modifiedFiles = <<fileOrder[2]>>
    /\ cleanResult.filesProcessed = 2
    /\ cleanResult.hasErrors

\* the number of white-space characters a line starts with
RECURSIVE LeadLen(_)
LeadLen(line) ==
    IF line # <<>> /\ Head(line) \in Ws THEN 1 + LeadLen(Tail(line)) ELSE 0

\* what stands behind the prefix of a line that starts, behind optional
\* white space, with the prefix
BehindPrefix(line) ==
    SubSeq(line, LeadLen(line) + Len(Prefix) + 1, Len(line))

\* the line has the form optional white space, prefix, optional white
\* space, text
OfForm(line) ==
    /\ Len(line) > LeadLen(line) + Len(Prefix)
    /\ SubSeq(line, LeadLen(line) + 1, LeadLen(line) + Len(Prefix)) = Prefix

\* the file scanSingleFile returned the annotations of
SingleScanned(p) ==
    /\ entry = "scanSingleFile"
    /\ spc = "done"
    /\ status[p] = "fulfilled"
    /\ "comments" \in DOMAIN scanResult

\* C23 (as claimed): every line of the form white space, prefix, white
\* space, text of a scanned file has exactly one annotation, with the text
\* trimmed as content, the 1-based index of the line and the raw line; a line
\* of another form has none; and no annotation has empty content
C23_RoundTripContent ==
    \A p \in ScanPaths :
        SingleScanned(p) =>
            /\ \A k \in 1..Len(scanTree[p]) :
                  LET line == scanTree[p][k]
                      found == {j \in 1..Len(scanResult.comments) :
                                  scanResult.comments[j].lineNumber = k}
                  IN IF OfForm(line)
                     THEN /\ Cardinality(found) = 1
                          /\ \A j \in found :
                                /\ scanResult.comments[j].content
                                      = Trim(BehindPrefix(line))
                                /\ scanResult.comments[j].originalLine = line
                     ELSE found = {}
            /\ \A j \in 1..Len(scanResult.comments) :
                  scanResult.comments[j].content # <<>>

\* the annotation the scenario expects at line n of a.ts
ScenarioAnnotation(n, text) ==
    [filePath |-> "a.ts", lineNumber |-> n, content |-> text, prefix |-> Prefix,
     originalLine |-> SpacedPrefix \o <<" ">> \o text]

\* `clean` without options ran to its end, without fault, on the tree whose
\* a.ts is the scenario file spelled with `pre`
ScenarioCleaned(pre) ==
    /\ command = "clean"
    /\ lpc = "done"
    /\ exitCode = 0
    /\ ~cliState.dryRun
    /\ ~cmdOptions.force
    /\ cmdOptions.backup
    /\ unreadableFiles = {}
    /\ readOnly = {}
    /\ faults = 0
    /\ preDisk["a.ts"] = ScenarioFile(pre)

\* C22 (as claimed): with prefix //_gc_ the file whose line 3 is
\* `// _gc_ remove me` and whose line 9 is `// _gc_ keep this too` scans to
\* exactly these two annotations, and cleaning them with the default options
\* removes both lines: two lines fewer, commentsRemoved 2, hasErrors false
C22_ReadmeScenario ==
    ScenarioCleaned(SpacedPrefix)
    => /\ comments = <<ScenarioAnnotation(3, RemoveMe),
                        ScenarioAnnotation(9, KeepThisToo)>>
       /\ Returned
       /\ Len(disk["a.ts"]) = Len(preDisk["a.ts"]) - 2
       /\ \A k \in 1..Len(disk["a.ts"]) : disk["a.ts"][k] = LineCode
       /\ cleanResult.commentsRemoved = 2
       /\ ~cleanResult.hasErrors

\* a front end runs in dry-run mode
DryRun ==
    \/ apc # "idle" /\ inputs.dryRun
    \/ lpc # "idle" /\ cliState.dryRun

Targeted(f) == {comments[k].lineNumber : k \in {j \in 1..Len(comments) :
                                                 comments[j].filePath = f}}

\* the lines of `lines` whose 1-based index is not in `targets`, in order
Remaining(lines, targets) ==
    LET keep == {k \in 1..Len(lines) : k \notin targets}
        nth(i) == CHOOSE k \in keep : Cardinality({j \in keep : j < k}) = i - 1
    IN [i \in 1..Cardinality(keep) |-> lines[nth(i)]]

\* removeComments returned, wrote, and rolled nothing back
CleanedForGood ==
    /\ Returned
    /\ ~options.dryRun
    /\ errorFiles = <<>> \/ ~options.restoreOnError

\* C31: after a clean that wrote and was not rolled back, every cleaned file
\* holds its lines at the call without the targeted ones, the others
\* unchanged and in order (an empty list of lines is the empty file), that
\* is as many lines fewer as there are distinct targeted line numbers,
\* whatever the order of the annotations
C31_TargetedLinesRemoved ==
    CleanedForGood =>
        \A k \in 1..Len(cleanedFiles) :
            LET f == cleanedFiles[k].filePath
                rest == Remaining(preDisk[f], Targeted(f))
            IN /\ disk[f] = IF rest = <<>> THEN <<LineEmpty>> ELSE rest
               /\ Len(rest) = Len(preDisk[f]) - Cardinality(Targeted(f))
               /\ Targeted(f) \subseteq 1..Len(preDisk[f])

\* C31's case: both lines of a file were targeted, the first line listed
\* first, and the clean wrote the file without them
C31_Witness ==
    /\ CleanedForGood
    /\ Len(comments) = 2
    /\ comments[1].filePath = comments[2].filePath
    /\ comments[1].lineNumber = 1
    /\ comments[2].lineNumber = 2
    /\ Len(cleanedFiles) = 1
    /\ disk[comments[1].filePath] = <<LineEmpty>>

\* scanFiles was called with a configuration validateScanConfig accepts
ScanFilesCalled == entry = "scanFiles" /\ ~BadConfig

\* no file of the tree was opened: no scanFile call was started
NoFileRead ==
    /\ \A p \in ScanPaths : status[p] = "idle" /\ fileResult[p] = NoFileResult
    /\ ioCalls <= 1

\* C32: when include / exclude match more than MAX_FILES files scanFiles
\* never starts to read a file (its one call is glob) and ends throwing
\* FILE_ERROR; when they match no file it reads none either and returns
\* the empty list without an error, unless glob itself failed
C32_FileCountLimits ==
    /\ (ScanFilesCalled /\ GlobCount(config) > MAX_FILES)
          => /\ NoFileRead
             /\ spc = "done" => scanError = FILE_ERROR /\ scanResult = NoScanResult
    /\ (ScanFilesCalled /\ GlobCount(config) = 0)
          => /\ NoFileRead
             /\ spc = "done" =>
                   \/ scanError = NoError /\ scanResult = [comments |-> <<>>]
                   \/ scanError = FILE_ERROR /\ scanResult = NoScanResult

\* C32's cases: the second scan of a tree under a pattern that matches
\* more than MAX_FILES files threw again
C32_Witness ==
    /\ ScanFilesCalled
    /\ spc = "done"
    /\ pass = 2
    /\ GlobCount(config) > MAX_FILES
    /\ scanError = FILE_ERROR
    /\ firstResult.error = FILE_ERROR

\* `ghostcomment clean` without --force
CleanUnforced == command = "clean" /\ ~cmdOptions.force

\* C33: in `clean` without --force removeComments is called only behind a
\* validation of the scanned annotations that found no error; when the
\* validation reports an error the tree stays the one the command started
\* on, no backup exists, removeComments is never called, and the command
\* ends with exit code 1
C33_ValidationBeforeRemoval ==
    CleanUnforced
    => /\ cpc # "idle" => vpc = "done" /\ vResult.valid
       /\ (vpc = "done" /\ ~vResult.valid)
             => /\ disk = preDisk
                /\ backups = NoBackups
                /\ cpc = "idle"
                /\ cleanedFiles = <<>>
                /\ lpc \in {"validating", "done"}
                /\ lpc = "done" => exitCode = 1

\* C33's case: `clean` without --force and without --dry-run found
\* annotations, one of them in a file that cannot be written, and ended
C33_Witness ==
    /\ CleanUnforced
    /\ ~cliState.dryRun
    /\ comments # <<>>
    /\ vpc = "done"
    /\ ~vResult.valid
    /\ lpc = "done"
    /\ exitCode = 1

\* C34 (as claimed): when another process wrote a file while cleanFile worked
\* on it, behind the backup and before the write, and removeComments
\* returns, the clean of that file failed or the file still holds what the
\* other process wrote
C34_NoSilentOverwrite ==
    Returned =>
        \A f \in otherWrote :
            \/ f \in Range(errorFiles)
            \/ LineOther \in Range(disk[f])

\* C35 (as claimed): an annotation is counted as skipped only when the last
\* response to its request was the platform's diff-skip response (422 for
\* GitHub, 400 naming line or position for GitLab)
C35_SkippedOnlyOnDiffSkip ==
    \A k \in 1..Len(outcomes) :
        outcomes[k].how = "skipped" => DiffSkip(outcomes[k].last)

RECURSIVE SettledAs(_, _)
\* the annotations among the first n whose outcome is `how`, in their order
SettledAs(how, n) ==
    IF n = 0 THEN <<>>
    ELSE SettledAs(how, n - 1)
         \o (IF outcomes[n].how = how THEN <<comments[n]>> ELSE <<>>)

\* C36: in every post result the success list has `posted` entries, those of
\* the annotations that were posted, and the errors list has `failed`
\* entries, which name the annotations that failed, in their order; an
\* annotation that was skipped is in neither list
C36_ListsMatchCounts ==
    Posted =>
        /\ Len(postResult.success) = postResult.posted
        /\ Len(postResult.errors) = postResult.failed
        /\ postResult.success = SettledAs("posted", Len(outcomes))
        /\ [k \in 1..Len(postResult.errors) |-> postResult.errors[k].comment]
              = SettledAs("failed", Len(outcomes))
        /\ \A k \in 1..Len(postResult.errors) :
              postResult.errors[k].code # NoError
        /\ \A c \in Range(SettledAs("skipped", Len(outcomes))) :
              /\ c \notin Range(postResult.success)
              /\ \A k \in 1..Len(postResult.errors) : postResult.errors[k].comment # c

\* C36's case: of two annotations the first was skipped and the second
\* failed; the errors list holds the second only
C36_Witness ==
    /\ Posted
    /\ Len(comments) = 2
    /\ outcomes[1].how = "skipped"
    /\ outcomes[2].how = "failed"
    /\ Len(postResult.errors) = 1
    /\ postResult.errors[1].comment = comments[2]
    /\ postResult.success = <<>>

\* C37 (as claimed): a comment-creation request that got no HTTP response is
\* not sent again, and its annotation is recorded as failed with the code
\* NETWORK_ERROR
C37_NoResponseIsNetworkError ==
    /\ \A k \in 1..Len(history) : history[k].kind # "noResponse"
    /\ \A k \in 1..Len(outcomes) :
          outcomes[k].last.kind = "noResponse"
              => /\ outcomes[k].how = "failed"
                 /\ outcomes[k].code = NETWORK_ERROR

\* the rollback loop of removeComments ran
RolledBack ==
    /\ options.restoreOnError
    /\ ~options.dryRun
    /\ errorFiles # <<>>
    /\ cleanedFiles # <<>>

\* the restore of the k-th cleaned file was tried and failed
RestoreFailed(k) ==
    /\ cleanedFiles[k].backupPath
    /\ cleanedFiles[k].filePath \notin restored

\* C38 (as claimed): the rollback starts when every file of the run has
\* been attempted; when removeComments has returned from a rollback in which
\* the restore of one file failed, every other cleaned file that has a
\* backup holds its content of before the call again
C38_RollbackGoesOn ==
    /\ cpc = "rollback" => Len(cleanedFiles) + Len(errorFiles) = Len(fileOrder)
    /\ (Returned /\ RolledBack /\ \E j \in 1..Len(cleanedFiles) : RestoreFailed(j))
          => \A k \in 1..Len(cleanedFiles) :
                (cleanedFiles[k].backupPath /\ ~RestoreFailed(k))
                    => disk[cleanedFiles[k].filePath] = preDisk[cleanedFiles[k].filePath]

====
